---- MODULE Spec2Model ----
(***************************************************************************)
(* Retrieval core of agenticSearch: Reciprocal Rank Fusion, the            *)
(* rerank-and-merge step of the orchestrator, and the call graph          *)
(* (build, call resolution, fuzzy lookup, chain tracing).                  *)
(*                                                                         *)
(* Python dicts are modelled as TLA+ functions whose DOMAIN is the set of  *)
(* keys that are present, so "key in d" is  key \in DOMAIN d.  RRF scores  *)
(* are exact rationals scaled by Denom (the floats of the code are not     *)
(* modelled bit for bit).                                                  *)
(***************************************************************************)
EXTENDS Integers, Sequences, FiniteSets, TLC

VARIABLES
    pc,                 \* position of the modelled run
    vector_results,     \* main.py: ranked list of the vector source
    bm25_results,       \* main.py: ranked list of the BM25 source
    keyword_chunks,     \* main.py: concatenated search_and_chunk results
    search_candidates,  \* main.py: output of reciprocal_rank_fusion
    targeted_chunks,    \* main.py: chunks of the files named by the skeleton analysis
    reranker_model,     \* CrossEncoderReranker.model: "loaded", or "none" after a failed load
    predict_raised,     \* whether model.predict raised in the rerank call
    reranked_search,    \* main.py: result of reranker.rerank
    top_chunks,         \* main.py: the final selection
    callees,            \* CallGraph.callees: func -> set of funcs it calls
    callers,            \* CallGraph.callers: func -> set of funcs that call it
    node_info,          \* CallGraph.node_info, in dict (insertion) order
    sym,                \* _process_calls: the symbol whose calls are processed
    known_symbols,      \* build_from_symbols: the names registered by the first pass
    resolved,           \* _process_calls: what _resolve_call returned
    cache_file,         \* call_graph.json: <<>> when absent, else <<its content>>
    symbol_index,       \* build_from_symbols: the symbol_index argument of the last call
    builds,             \* number of build_from_symbols calls so far
    loaded,             \* whether the last build_from_symbols call took the cache branch
    first_build,        \* history: the last computing build (index, result, same object?)
    built_clean,        \* history: <<index>> when the graph was computed on an empty CallGraph
    operation,          \* the query method called: "get_callers", "get_callees", "trace_chain"
    func_name,          \* its func_name argument
    direction,          \* trace_chain: the direction argument
    depth,              \* trace_chain: the depth argument
    frames,             \* _trace_recursive: the call stack, innermost call last
    visited,            \* trace_chain: the visited set shared by the whole traversal
    query_result,       \* <<>> while the query runs, else <<what it returned>>
    file_lines,         \* _split_into_chunks: the file (path, number of lines, blank lines)
    file_chunks,        \* _chunk_files: what _split_into_chunks returned for the file
    root_files,         \* the files under the search path, in os.walk order
    rebuild_index,      \* main.py: args.rebuild_index
    metadata,           \* VectorSearchTool.metadata
    faiss_index,        \* VectorSearchTool.index: <<>> for None, else <<index.ntotal>>
    vector_cache,       \* index.faiss and metadata.json: <<>> when absent, else <<[ntotal, metadata]>>
    bm25,               \* BM25SearchTool.bm25: <<>> for None, else <<number of documents>>
    bm25_metadata,      \* BM25SearchTool.metadata
    bm25_cache,         \* bm25_index.pkl: <<>> when absent, else <<[bm25, metadata]>>
    graph_context_parts, \* main.py: call graph contexts for the synthesis, named by their symbol
    queries,            \* main.py: the search queries, each named by the matches ripgrep finds for it
    rg_outcome,         \* SearchTool.search: "ok", "unavailable" (no executable) or "error" (subprocess.run raised)
    source_files,       \* extract_from_directory: the files of the walk (path, parse outcome, symbols declared)
    symbol_cache,       \* symbol_index.json: <<>> when absent, else <<its content>>
    load_result,        \* what _load_cache of the vector tool returned: "not_called", "absent", "rejected", "loaded"
    sections,           \* TargetedRetriever._sections: (path, content) pairs in dict order
    file_paths,         \* retrieve_files: the file_paths argument
    max_chars_per_file, \* retrieve_files: the max_chars_per_file argument
    index_faiss,        \* the file index.faiss: <<>> when absent, else <<[complete, ntotal, vectors]>>
    metadata_json,      \* the file metadata.json: <<>> when absent, else <<[complete, entries]>>
    save_pc,            \* position of the run inside VectorSearchTool._save_cache
    load_pc,            \* position of the other run inside VectorSearchTool._load_cache
    reader_index,       \* self.index of the loading run: <<>> for None, else <<[ntotal, vectors]>>
    reader_metadata     \* self.metadata of the loading run

fusionVars == <<vector_results, bm25_results, keyword_chunks>>

selectVars == <<targeted_chunks, reranker_model, predict_raised, reranked_search, top_chunks>>

graphVars == <<callees, callers, node_info>>

resolveVars == <<sym, known_symbols, resolved>>

buildVars == <<cache_file, symbol_index, builds, loaded, first_build, built_clean>>

queryVars == <<operation, func_name, direction, depth, frames, visited, query_result>>

chunkVars == <<file_lines, file_chunks>>

retrieverVars == <<sections, file_paths, max_chars_per_file>>

saveLoadVars ==
    <<index_faiss, metadata_json, save_pc, load_pc, reader_index, reader_metadata>>

pipeVars ==
    <<root_files, rebuild_index, metadata, faiss_index, vector_cache, bm25, bm25_metadata,
      bm25_cache, graph_context_parts, queries, rg_outcome, source_files, symbol_cache,
      load_result, retrieverVars, saveLoadVars>>

indexVars == <<chunkVars, pipeVars>>

vars == <<pc, fusionVars, search_candidates, selectVars, graphVars, resolveVars, buildVars,
          queryVars, indexVars>>

\* retrieve_files: the default of max_chars_per_file
MAX_CHARS_PER_FILE == 100000

-----------------------------------------------------------------------------
(* Generic helpers *)

\* d[k] = v on a dict (adds the key when it is missing)
SetField(d, k, v) == [x \in (DOMAIN d) \cup {k} |-> IF x = k THEN v ELSE d[x]]

Range(s) == {s[i] : i \in 1..Len(s)}

\* all sequences over S of length at most n
SeqsUpTo(S, n) == UNION {[1..m -> S] : m \in 0..n}

\* the sequences over S without a repeated element, of length at most n
InjSeqsUpTo(S, n) == {s \in SeqsUpTo(S, n) : \A i, j \in 1..Len(s) : s[i] = s[j] => i = j}

\* the permutations of 1..n
ListOrders(n) == {perm \in [1..n -> 1..n] : \A i, j \in 1..n : perm[i] = perm[j] => i = j}

\* the sequence in every order
Perms(seq) == {[i \in 1..Len(seq) |-> seq[perm[i]]] : perm \in ListOrders(Len(seq))}

Max(a, b) == IF a >= b THEN a ELSE b

Min(a, b) == IF a <= b THEN a ELSE b

-----------------------------------------------------------------------------
(* Bounds and program constants *)

\* longest ranked list fed to the fusion
MaxLen == 4

\* reciprocal_rank_fusion(results_lists, k=60)
K == 60

\* most fused candidates handed to the reranker
MaxCand == 4

\* most targeted chunks
MaxTargeted == 6

\* main.py: slots_remaining = 8 - len(targeted_chunks)
TotalBudget == 8

\* main.py: if slots_remaining < 3: slots_remaining = 3
MinSlots == 3

\* the (file, start_line, end_line) triples of the modelled retrieval pass
Triples == {<<"a.py", 1, 10>>, <<"a.py", 11, 20>>, <<"b.py", 1, 10>>}

RECURSIVE ProdTo(_)
ProdTo(n) == IF n = 0 THEN 1 ELSE (K + n) * ProdTo(n - 1)

\* common denominator of the weights 1/(K+1) .. 1/(K+MaxLen)
Denom == ProdTo(MaxLen)

-----------------------------------------------------------------------------
(* Chunk records of the three retrieval sources *)

\* VectorSearchTool.search: no "source" key
VectorDoc(t) ==
    [file |-> t[1], line_number |-> t[2], start_line |-> t[2], end_line |-> t[3],
     content |-> "indexed"]

\* BM25SearchTool.search
Bm25Doc(t) ==
    [file |-> t[1], start_line |-> t[2], end_line |-> t[3],
     content |-> "indexed", source |-> "bm25"]

\* SearchTool.search_and_chunk
KeywordDoc(t) ==
    [file |-> t[1], start_line |-> t[2], end_line |-> t[3],
     content |-> "context", source |-> "keyword"]

VectorDocs(ts) == [i \in 1..Len(ts) |-> VectorDoc(ts[i])]

Bm25Docs(ts) == [i \in 1..Len(ts) |-> Bm25Doc(ts[i])]

KeywordDocs(ts) == [i \in 1..Len(ts) |-> KeywordDoc(ts[i])]

-----------------------------------------------------------------------------
(* reciprocal_rank_fusion *)

\* key = (doc["file"], doc["start_line"], doc["end_line"])
Key(doc) == <<doc.file, doc.start_line, doc.end_line>>

\* 1.0 / (k + (rank + 1)), scaled by Denom; rank is zero-based
RankWeightOffByOne(rank) == Denom \div (K + rank)

RankWeight(rank) == Denom \div (K + (rank + 1))

\* the inner loop over enumerate(results) of list number li, from index rank on.
\* acc.scores and acc.doc_map are the two dicts, acc.keys their insertion order;
\* doc_map holds a reference <<list, position>> to the dict object first seen.
RECURSIVE FuseList(_, _, _, _)
FuseList(results, li, rank, acc) ==
    IF rank >= Len(results) THEN acc
    ELSE LET doc == results[rank + 1]
             key == Key(doc)
             acc1 == IF key \notin DOMAIN acc.scores
                     THEN [scores  |-> acc.scores @@ (key :> 0),
                           doc_map |-> acc.doc_map @@ (key :> <<li, rank + 1>>),
                           keys    |-> Append(acc.keys, key)]
                     ELSE acc
             acc2 == [acc1 EXCEPT !.scores[key] = @ + RankWeight(rank)]
         IN FuseList(results, li, rank + 1, acc2)

\* the outer loop over results_lists
RECURSIVE FuseLists(_, _, _)
FuseLists(results_lists, li, acc) ==
    IF li > Len(results_lists) THEN acc
    ELSE FuseLists(results_lists, li + 1, FuseList(results_lists[li], li, 0, acc))

EmptyAcc == [scores |-> <<>>, doc_map |-> <<>>, keys |-> <<>>]

Accumulate(results_lists) == FuseLists(results_lists, 1, EmptyAcc)

\* sorted(..., key=scores, reverse=True) is stable: equal scores keep their order
RECURSIVE InsertDesc(_, _, _)
InsertDesc(sorted, key, scores) ==
    IF sorted = <<>> THEN <<key>>
    ELSE IF scores[Head(sorted)] >= scores[key]
         THEN <<Head(sorted)>> \o InsertDesc(Tail(sorted), key, scores)
         ELSE <<key>> \o sorted

RECURSIVE SortedKeysFrom(_, _, _, _)
SortedKeysFrom(keys, i, scores, sorted) ==
    IF i > Len(keys) THEN sorted
    ELSE SortedKeysFrom(keys, i + 1, scores, InsertDesc(sorted, keys[i], scores))

SortedKeys(acc) == SortedKeysFrom(acc.keys, 1, acc.scores, <<>>)

\* merged_results: the dict objects of doc_map, each with rrf_score set
MergedResults(results_lists) ==
    LET acc == Accumulate(results_lists)
        sk  == SortedKeys(acc)
    IN [i \in 1..Len(sk) |->
          LET ref == acc.doc_map[sk[i]]
          IN SetField(results_lists[ref[1]][ref[2]], "rrf_score", acc.scores[sk[i]])]

\* the input lists after the call: doc["rrf_score"] = ... wrote into the dict
\* objects that the lists hold
ListsAfterFusion(results_lists) ==
    LET acc == Accumulate(results_lists)
    IN [li \in 1..Len(results_lists) |->
          [p \in 1..Len(results_lists[li]) |->
              LET doc == results_lists[li][p]
              IN IF acc.doc_map[Key(doc)] = <<li, p>>
                 THEN SetField(doc, "rrf_score", acc.scores[Key(doc)])
                 ELSE doc]]

ResultsLists == <<vector_results, bm25_results, keyword_chunks>>

\* main.py: search_candidates = reciprocal_rank_fusion([vector, bm25, keyword])
Fuse ==
    /\ pc = "retrieved"
    /\ search_candidates' = MergedResults(ResultsLists)
    /\ vector_results' = ListsAfterFusion(ResultsLists)[1]
    /\ bm25_results' = ListsAfterFusion(ResultsLists)[2]
    /\ keyword_chunks' = ListsAfterFusion(ResultsLists)[3]
    /\ pc' = "fused"
    /\ UNCHANGED <<indexVars, selectVars, graphVars, resolveVars, buildVars, queryVars>>

\* The lists a retrieval pass can hand to the fusion: the vector and BM25
\* lists hold distinct index entries; search_and_chunk keys its seen-set on the
\* unclamped end line and main concatenates the results of up to three
\* queries, so the keyword list can repeat a triple.
InitFusion ==
    /\ pc = "retrieved"
    /\ vector_results \in {VectorDocs(ts) : ts \in InjSeqsUpTo(Triples, MaxLen)}
    /\ bm25_results \in {Bm25Docs(ts) : ts \in InjSeqsUpTo(Triples, MaxLen)}
    /\ keyword_chunks \in {KeywordDocs(ts) : ts \in SeqsUpTo(Triples, MaxLen)}
    /\ search_candidates = <<>>
    /\ targeted_chunks = <<>>
    /\ reranker_model = "none"
    /\ predict_raised = FALSE
    /\ reranked_search = <<>>
    /\ top_chunks = <<>>
    /\ callees = <<>>
    /\ callers = <<>>
    /\ node_info = <<>>
    /\ sym = <<>>
    /\ known_symbols = {}
    /\ resolved = <<>>
    /\ cache_file = <<>>
    /\ symbol_index = <<>>
    /\ builds = 0
    /\ loaded = FALSE
    /\ first_build = <<>>
    /\ built_clean = <<>>
    /\ operation = "none"
    /\ func_name = <<>>
    /\ direction = "down"
    /\ depth = 0
    /\ frames = <<>>
    /\ visited = {}
    /\ query_result = <<>>
    /\ file_lines = <<>>
    /\ file_chunks = <<>>
    /\ root_files = <<>>
    /\ rebuild_index = FALSE
    /\ metadata = <<>>
    /\ faiss_index = <<>>
    /\ vector_cache = <<>>
    /\ bm25 = <<>>
    /\ bm25_metadata = <<>>
    /\ bm25_cache = <<>>
    /\ graph_context_parts = <<>>
    /\ queries = <<>>
    /\ rg_outcome = "ok"
    /\ source_files = <<>>
    /\ symbol_cache = <<>>
    /\ load_result = "not_called"
    /\ sections = <<>>
    /\ file_paths = <<>>
    /\ max_chars_per_file = MAX_CHARS_PER_FILE
    /\ index_faiss = <<>>
    /\ metadata_json = <<>>
    /\ save_pc = "idle"
    /\ load_pc = "idle"
    /\ reader_index = <<>>
    /\ reader_metadata = <<>>

NextFusion == Fuse

SpecFusion == InitFusion /\ [][NextFusion]_vars

-----------------------------------------------------------------------------
(* Selector: CrossEncoderReranker.rerank and the merge of main *)

\* files the skeleton analysis can name, and files of the fused candidates
TargetedFiles == {"a.py", "b.py"}

CandidateFiles == {"a.py", "c.py"}

\* values model.predict can return for a pair
ScoreValues == {1, 2}

\* TargetedRetriever.retrieve_files: one whole-file chunk per retrieved path;
\* names are character sequences, so its "symbol": "" is <<>>
TargetedDoc(f) ==
    [file |-> f, content |-> "full", start_line |-> 1, end_line |-> 20,
     source |-> "targeted", symbol |-> <<>>]

TargetedDocs(fs) == [i \in 1..Len(fs) |-> TargetedDoc(fs[i])]

\* a fused candidate: the i-th entry of an RRF output (distinct triples,
\* rrf_score non-increasing)
CandidateDoc(f, i, n) ==
    [file |-> f, start_line |-> 10 * i + 1, end_line |-> 10 * i + 10,
     content |-> "indexed", rrf_score |-> n - i + 1]

\* chunks[:top_k]
Prefix(chunks, top_k) == SubSeq(chunks, 1, Min(top_k, Len(chunks)))

\* scored_chunks.sort(key=rerank_score, reverse=True): stable
RECURSIVE InsertByRerankScore(_, _)
InsertByRerankScore(sorted, chunk) ==
    IF sorted = <<>> THEN <<chunk>>
    ELSE IF Head(sorted).rerank_score >= chunk.rerank_score
         THEN <<Head(sorted)>> \o InsertByRerankScore(Tail(sorted), chunk)
         ELSE <<chunk>> \o sorted

RECURSIVE SortByRerankScoreFrom(_, _, _)
SortByRerankScoreFrom(chunks, i, sorted) ==
    IF i > Len(chunks) THEN sorted
    ELSE SortByRerankScoreFrom(chunks, i + 1, InsertByRerankScore(sorted, chunks[i]))

SortByRerankScore(chunks) == SortByRerankScoreFrom(chunks, 1, <<>>)

\* the chunk dicts after  chunk["rerank_score"] = float(scores[i])
Scored(chunks, scores) ==
    [i \in 1..Len(chunks) |-> SetField(chunks[i], "rerank_score", scores[i])]

\* CrossEncoderReranker.rerank(query, chunks, top_k).  outcome is what
\* model.predict does: it raises, or it returns outcome.scores.
\* Returns the list handed back and the chunk dicts as the call leaves them.
RerankUnsorted(chunks, model, outcome, top_k) ==
    IF chunks = <<>> \/ model = "none" \/ outcome.raises
    THEN [result |-> Prefix(chunks, top_k), chunks |-> chunks]
    ELSE [result |-> Prefix(Scored(chunks, outcome.scores), top_k),
          chunks |-> Scored(chunks, outcome.scores)]

RerankNoFallback(chunks, model, outcome, top_k) ==
    IF chunks = <<>> \/ model = "none" \/ outcome.raises
    THEN [result |-> <<>>, chunks |-> chunks]
    ELSE [result |-> Prefix(SortByRerankScore(Scored(chunks, outcome.scores)), top_k),
          chunks |-> Scored(chunks, outcome.scores)]

Rerank(chunks, model, outcome, top_k) ==
    IF chunks = <<>> \/ model = "none"
    THEN [result |-> Prefix(chunks, top_k), chunks |-> chunks]
    ELSE IF outcome.raises
         THEN [result |-> Prefix(chunks, top_k), chunks |-> chunks]
         ELSE [result |-> Prefix(SortByRerankScore(Scored(chunks, outcome.scores)), top_k),
               chunks |-> Scored(chunks, outcome.scores)]

\* slots_remaining = 8 - len(targeted_chunks); if slots_remaining < 3: ... = 3
SlotsRemainingNoFloor(n) == TotalBudget - n

SlotsRemainingWhole(n) == TotalBudget

SlotsRemaining(n) ==
    IF TotalBudget - n < MinSlots THEN MinSlots ELSE TotalBudget - n

\* the loop  for chunk in reranked_search  from index i on
RECURSIVE CombineFromKeepAll(_, _, _, _)
CombineFromKeepAll(reranked, i, chunks, seen_paths) ==
    IF i > Len(reranked) THEN chunks
    ELSE IF reranked[i].file \notin seen_paths
         THEN CombineFromKeepAll(reranked, i + 1, Append(chunks, reranked[i]), seen_paths)
         ELSE CombineFromKeepAll(reranked, i + 1, chunks, seen_paths)

RECURSIVE CombineFrom(_, _, _, _)
CombineFrom(reranked, i, chunks, seen_paths) ==
    IF i > Len(reranked) THEN chunks
    ELSE IF reranked[i].file \notin seen_paths
         THEN CombineFrom(reranked, i + 1, Append(chunks, reranked[i]),
                          seen_paths \cup {reranked[i].file})
         ELSE CombineFrom(reranked, i + 1, chunks, seen_paths)

\* top_chunks = list(targeted_chunks); seen_paths = {c['file'] ...}; loop
CombineRerankedFirst(targeted, reranked) ==
    CombineFrom(targeted, 1, reranked, {reranked[i].file : i \in 1..Len(reranked)})

Combine(targeted, reranked) ==
    CombineFrom(reranked, 1, targeted, {targeted[i].file : i \in 1..Len(targeted)})

\* what model.predict can do on n pairs; it is not called when rerank returns
\* early (no chunks, or no model)
PredictOutcomes(n, model) ==
    IF n = 0 \/ model = "none"
    THEN {[raises |-> FALSE, scores |-> <<>>]}
    ELSE {[raises |-> TRUE, scores |-> <<>>]}
            \cup {[raises |-> FALSE, scores |-> sc] : sc \in [1..n -> ScoreValues]}

\* main.py step 6: rerank the fused candidates, then merge with the targeted
Select ==
    /\ pc = "fused"
    /\ \E outcome \in PredictOutcomes(Len(search_candidates), reranker_model) :
          LET r == Rerank(search_candidates, reranker_model, outcome,
                          SlotsRemaining(Len(targeted_chunks)))
          IN /\ predict_raised' =
                  (search_candidates # <<>> /\ reranker_model # "none" /\ outcome.raises)
             /\ search_candidates' = r.chunks
             /\ reranked_search' = r.result
             /\ top_chunks' = Combine(targeted_chunks, r.result)
    /\ pc' = "selected"
    /\ UNCHANGED <<indexVars, fusionVars, targeted_chunks, reranker_model, graphVars, resolveVars, buildVars,
                   queryVars>>

InitSelect ==
    /\ pc = "fused"
    /\ vector_results = <<>>
    /\ bm25_results = <<>>
    /\ keyword_chunks = <<>>
    /\ search_candidates \in
          {[i \in 1..Len(fs) |-> CandidateDoc(fs[i], i, Len(fs))] :
              fs \in SeqsUpTo(CandidateFiles, MaxCand)}
    /\ targeted_chunks \in
          {TargetedDocs(fs) : fs \in SeqsUpTo(TargetedFiles, MaxTargeted)}
    /\ reranker_model \in {"loaded", "none"}
    /\ predict_raised = FALSE
    /\ reranked_search = <<>>
    /\ top_chunks = <<>>
    /\ callees = <<>>
    /\ callers = <<>>
    /\ node_info = <<>>
    /\ sym = <<>>
    /\ known_symbols = {}
    /\ resolved = <<>>
    /\ cache_file = <<>>
    /\ symbol_index = <<>>
    /\ builds = 0
    /\ loaded = FALSE
    /\ first_build = <<>>
    /\ built_clean = <<>>
    /\ operation = "none"
    /\ func_name = <<>>
    /\ direction = "down"
    /\ depth = 0
    /\ frames = <<>>
    /\ visited = {}
    /\ query_result = <<>>
    /\ file_lines = <<>>
    /\ file_chunks = <<>>
    /\ root_files = <<>>
    /\ rebuild_index = FALSE
    /\ metadata = <<>>
    /\ faiss_index = <<>>
    /\ vector_cache = <<>>
    /\ bm25 = <<>>
    /\ bm25_metadata = <<>>
    /\ bm25_cache = <<>>
    /\ graph_context_parts = <<>>
    /\ queries = <<>>
    /\ rg_outcome = "ok"
    /\ source_files = <<>>
    /\ symbol_cache = <<>>
    /\ load_result = "not_called"
    /\ sections = <<>>
    /\ file_paths = <<>>
    /\ max_chars_per_file = MAX_CHARS_PER_FILE
    /\ index_faiss = <<>>
    /\ metadata_json = <<>>
    /\ save_pc = "idle"
    /\ load_pc = "idle"
    /\ reader_index = <<>>
    /\ reader_metadata = <<>>

NextSelect == Select

SpecSelect == InitSelect /\ [][NextSelect]_vars

\* the files of the targeted chunks of the budget runs, all different
BudgetTargetedFiles ==
    <<"t1.py", "t2.py", "t3.py", "t4.py", "t5.py", "t6.py", "t7.py", "t8.py">>

\* the files of their fused candidates: one chunk per file, one of the files
\* targeted as well
BudgetCandidateFiles == {"c1.py", "c2.py", "c3.py", "c4.py", "t1.py"}

\* main.py step 6 on candidates of different files, so that the number of
\* slots, not the number of files, limits the selection
InitBudget ==
    /\ pc = "fused"
    /\ vector_results = <<>>
    /\ bm25_results = <<>>
    /\ keyword_chunks = <<>>
    /\ search_candidates \in
          {[i \in 1..Len(fs) |-> CandidateDoc(fs[i], i, Len(fs))] :
              fs \in InjSeqsUpTo(BudgetCandidateFiles, MaxCand)}
    /\ targeted_chunks \in
          {TargetedDocs(SubSeq(BudgetTargetedFiles, 1, n)) :
              n \in 0..Min(MaxTargeted, Len(BudgetTargetedFiles))}
    /\ reranker_model \in {"loaded", "none"}
    /\ predict_raised = FALSE
    /\ reranked_search = <<>>
    /\ top_chunks = <<>>
    /\ callees = <<>>
    /\ callers = <<>>
    /\ node_info = <<>>
    /\ sym = <<>>
    /\ known_symbols = {}
    /\ resolved = <<>>
    /\ cache_file = <<>>
    /\ symbol_index = <<>>
    /\ builds = 0
    /\ loaded = FALSE
    /\ first_build = <<>>
    /\ built_clean = <<>>
    /\ operation = "none"
    /\ func_name = <<>>
    /\ direction = "down"
    /\ depth = 0
    /\ frames = <<>>
    /\ visited = {}
    /\ query_result = <<>>
    /\ file_lines = <<>>
    /\ file_chunks = <<>>
    /\ root_files = <<>>
    /\ rebuild_index = FALSE
    /\ metadata = <<>>
    /\ faiss_index = <<>>
    /\ vector_cache = <<>>
    /\ bm25 = <<>>
    /\ bm25_metadata = <<>>
    /\ bm25_cache = <<>>
    /\ graph_context_parts = <<>>
    /\ queries = <<>>
    /\ rg_outcome = "ok"
    /\ source_files = <<>>
    /\ symbol_cache = <<>>
    /\ load_result = "not_called"
    /\ sections = <<>>
    /\ file_paths = <<>>
    /\ max_chars_per_file = MAX_CHARS_PER_FILE
    /\ index_faiss = <<>>
    /\ metadata_json = <<>>
    /\ save_pc = "idle"
    /\ load_pc = "idle"
    /\ reader_index = <<>>
    /\ reader_metadata = <<>>

NextBudget == Select

SpecBudget == InitBudget /\ [][NextBudget]_vars

-----------------------------------------------------------------------------
(* Call graph: names and call resolution *)

\* Names are strings, modelled as sequences of characters.  None and the
\* empty string are both <<>> (the code only tests them for truth).
None == <<>>

SelfDot == <<"s", "e", "l", "f", ".">>

\* s.startswith(p), s.endswith(p)
StartsWith(s, p) == Len(s) >= Len(p) /\ SubSeq(s, 1, Len(p)) = p

EndsWith(s, p) == Len(s) >= Len(p) /\ SubSeq(s, Len(s) - Len(p) + 1, Len(s)) = p

\* "." in s
HasDot(s) == \E i \in 1..Len(s) : s[i] = "."

\* s.split(".")[1], the segment after the first dot (not what the code takes)
SecondSegment(s) ==
    IF HasDot(s)
    THEN LET d == CHOOSE i \in 1..Len(s) :
                     s[i] = "." /\ \A j \in 1..(i - 1) : s[j] # "."
             rest == SubSeq(s, d + 1, Len(s))
         IN IF HasDot(rest)
            THEN SubSeq(rest, 1, (CHOOSE i \in 1..Len(rest) :
                                     rest[i] = "." /\ \A j \in 1..(i - 1) : rest[j] # ".") - 1)
            ELSE rest
    ELSE s

\* s.split(".")[-1]
LastSegment(s) ==
    IF HasDot(s)
    THEN LET d == CHOOSE i \in 1..Len(s) :
                     s[i] = "." /\ \A j \in (i + 1)..Len(s) : s[j] # "."
         IN SubSeq(s, d + 1, Len(s))
    ELSE s

\* f"{a}.{b}"
Dotted(a, b) == a \o <<".">> \o b

\* CallGraph._qualified_name
QualifiedName(s) == IF s.parent # None THEN Dotted(s.parent, s.name) ELSE s.name

\* matches = [s for s in known_symbols if s.endswith(f".{bare_name}")]
SuffixMatches(bare_name, known) == {s \in known : EndsWith(s, <<".">> \o bare_name)}

\* CallGraph._resolve_call; None when the call is not resolved
ResolveCallFirstSuffix(call_name, parent_class, known) ==
    IF call_name \in known THEN call_name
    ELSE IF /\ StartsWith(call_name, SelfDot)
            /\ parent_class # None
            /\ Dotted(parent_class, SubSeq(call_name, 6, Len(call_name))) \in known
    THEN Dotted(parent_class, SubSeq(call_name, 6, Len(call_name)))
    ELSE IF HasDot(call_name) /\ LastSegment(call_name) \in known
    THEN LastSegment(call_name)
    ELSE IF HasDot(call_name) /\ SuffixMatches(LastSegment(call_name), known) # {}
    THEN CHOOSE m \in SuffixMatches(LastSegment(call_name), known) : TRUE
    ELSE IF parent_class # None /\ Dotted(parent_class, call_name) \in known
    THEN Dotted(parent_class, call_name)
    ELSE None

ResolveCall(call_name, parent_class, known) ==
    IF call_name \in known THEN call_name
    ELSE IF /\ StartsWith(call_name, SelfDot)
            /\ parent_class # None
            /\ Dotted(parent_class, SubSeq(call_name, 6, Len(call_name))) \in known
    THEN Dotted(parent_class, SubSeq(call_name, 6, Len(call_name)))
    ELSE IF HasDot(call_name) /\ LastSegment(call_name) \in known
    THEN LastSegment(call_name)
    ELSE IF HasDot(call_name)
            /\ Cardinality(SuffixMatches(LastSegment(call_name), known)) = 1
    THEN CHOOSE m \in SuffixMatches(LastSegment(call_name), known) : TRUE
    ELSE IF parent_class # None /\ Dotted(parent_class, call_name) \in known
    THEN Dotted(parent_class, call_name)
    ELSE None

\* d[k].add(v) on a defaultdict(set)
AddTo(d, k, v) ==
    IF k \in DOMAIN d THEN [d EXCEPT ![k] = @ \cup {v}] ELSE d @@ (k :> {v})

\* CallGraph._process_calls on the adjacency maps g = [callees, callers].
\* s.calls is a set: the edges are added to sets, so the order of the list
\* does not matter.
RECURSIVE ProcessCallSetOneWay(_, _, _, _)
ProcessCallSetOneWay(s, calls, known, g) ==
    IF calls = {} THEN g
    ELSE LET call_name == CHOOSE c \in calls : TRUE
             r == ResolveCall(call_name, s.parent, known)
             g1 == IF r # None
                   THEN [callees |-> AddTo(g.callees, QualifiedName(s), r),
                         callers |-> g.callers]
                   ELSE g
         IN ProcessCallSetOneWay(s, calls \ {call_name}, known, g1)

RECURSIVE ProcessCallSet(_, _, _, _)
ProcessCallSet(s, calls, known, g) ==
    IF calls = {} THEN g
    ELSE LET call_name == CHOOSE c \in calls : TRUE
             r == ResolveCall(call_name, s.parent, known)
             g1 == IF r # None
                   THEN [callees |-> AddTo(g.callees, QualifiedName(s), r),
                         callers |-> AddTo(g.callers, r, QualifiedName(s))]
                   ELSE g
         IN ProcessCallSet(s, calls \ {call_name}, known, g1)

ProcessCalls(s, known, g) == ProcessCallSet(s, s.calls, known, g)

-----------------------------------------------------------------------------
(* _process_calls on one call reference *)

nf == <<"f">>

ng == <<"g">>

nm == <<"m">>

clsA == <<"A">>

clsB == <<"B">>

\* qualified names the first pass may have registered
KnownPool == {nf, nm, Dotted(clsA, nm), Dotted(clsB, nm), Dotted(clsA, nf)}

\* raw call references, as SymbolExtractor._get_call_name writes them
CallNames ==
    {nf, nm, ng, Dotted(clsA, nm), SelfDot \o nm, SelfDot \o nf,
     Dotted(<<"x">>, nm), Dotted(<<"x">>, nf), Dotted(<<"x">>, ng),
     SelfDot \o Dotted(<<"x">>, nm)}

ParentClasses == {None, clsA, clsB}

\* the calling symbols: a function or a method with one call reference
CallingSymbols ==
    {[type |-> IF p = None THEN "function" ELSE "method",
      name |-> n, parent |-> p, calls |-> {c}] :
        n \in {nf, nm}, p \in ParentClasses, c \in CallNames}

ProcessOne ==
    /\ pc = "registered"
    /\ resolved' = ResolveCall(CHOOSE c \in sym.calls : TRUE, sym.parent, known_symbols)
    /\ LET g == ProcessCalls(sym, known_symbols, [callees |-> callees, callers |-> callers])
       IN /\ callees' = g.callees
          /\ callers' = g.callers
    /\ pc' = "processed"
    /\ UNCHANGED <<indexVars, fusionVars, search_candidates, selectVars, node_info, sym, known_symbols, buildVars,
                   queryVars>>

\* after the first pass of build_from_symbols: the caller is registered
InitResolve ==
    /\ pc = "registered"
    /\ sym \in CallingSymbols
    /\ known_symbols \in {ks \cup {QualifiedName(sym)} : ks \in SUBSET KnownPool}
    /\ resolved = None
    /\ callees = <<>>
    /\ callers = <<>>
    /\ node_info = <<>>
    /\ vector_results = <<>>
    /\ bm25_results = <<>>
    /\ keyword_chunks = <<>>
    /\ search_candidates = <<>>
    /\ targeted_chunks = <<>>
    /\ reranker_model = "none"
    /\ predict_raised = FALSE
    /\ reranked_search = <<>>
    /\ top_chunks = <<>>
    /\ cache_file = <<>>
    /\ symbol_index = <<>>
    /\ builds = 0
    /\ loaded = FALSE
    /\ first_build = <<>>
    /\ built_clean = <<>>
    /\ operation = "none"
    /\ func_name = <<>>
    /\ direction = "down"
    /\ depth = 0
    /\ frames = <<>>
    /\ visited = {}
    /\ query_result = <<>>
    /\ file_lines = <<>>
    /\ file_chunks = <<>>
    /\ root_files = <<>>
    /\ rebuild_index = FALSE
    /\ metadata = <<>>
    /\ faiss_index = <<>>
    /\ vector_cache = <<>>
    /\ bm25 = <<>>
    /\ bm25_metadata = <<>>
    /\ bm25_cache = <<>>
    /\ graph_context_parts = <<>>
    /\ queries = <<>>
    /\ rg_outcome = "ok"
    /\ source_files = <<>>
    /\ symbol_cache = <<>>
    /\ load_result = "not_called"
    /\ sections = <<>>
    /\ file_paths = <<>>
    /\ max_chars_per_file = MAX_CHARS_PER_FILE
    /\ index_faiss = <<>>
    /\ metadata_json = <<>>
    /\ save_pc = "idle"
    /\ load_pc = "idle"
    /\ reader_index = <<>>
    /\ reader_metadata = <<>>

NextResolve == ProcessOne

SpecResolve == InitResolve /\ [][NextResolve]_vars

-----------------------------------------------------------------------------
(* CallGraph.build_from_symbols, _save_cache, _load_cache *)

\* most build_from_symbols calls in one behaviour
MaxBuilds == 2

\* SymbolExtractor records.  params, docstring and is_async are left out:
\* the graph copies them into node_info and never reads them.
FunctionSym(n, cs, line) ==
    [type |-> "function", name |-> n, parent |-> None, calls |-> cs,
     start_line |-> line, end_line |-> line + 1]

MethodSym(n, p, cs, line) ==
    [type |-> "method", name |-> n, parent |-> p, calls |-> cs,
     start_line |-> line, end_line |-> line + 1]

\* a class record; the class is declared on the line before its first method
\* and ends with its last method
ClassSym(n, ms) ==
    [type |-> "class", name |-> n, methods |-> ms,
     start_line |-> IF ms = <<>> THEN 1 ELSE ms[1].start_line - 1,
     end_line |-> IF ms = <<>> THEN 1 ELSE ms[Len(ms)].end_line]

\* the top-level symbols a file of the modelled project can hold
SymbolPool ==
    {FunctionSym(nf, {ng}, 1),
     FunctionSym(ng, {Dotted(<<"x">>, nm)}, 5),
     ClassSym(clsA, <<MethodSym(nm, clsA, {SelfDot \o nm, ng}, 2)>>),
     ClassSym(clsB, <<MethodSym(nm, clsB, {<<"h">>}, 3)>>)}

\* symbol indexes: one file with one or two symbols, or two files that
\* declare the same symbol (the qualified names collide)
SymbolIndexes ==
    {<<>>}
      \cup {<<[path |-> "a.py", symbols |-> <<a>>]>> : a \in SymbolPool}
      \cup {<<[path |-> "a.py", symbols |-> <<a, b>>]>> : a \in SymbolPool, b \in SymbolPool}
      \cup {<<[path |-> "a.py", symbols |-> <<a>>], [path |-> "b.py", symbols |-> <<a>>]>> :
               a \in SymbolPool}

\* The function and method symbols in the order in which both passes of
\* build_from_symbols visit them (the methods of a class record in place of
\* the class), each with its file path.
RECURSIVE MethodsFrom(_, _, _)
MethodsFrom(path, ms, i) ==
    IF i > Len(ms) THEN <<>>
    ELSE <<[file |-> path, sym |-> ms[i]]>> \o MethodsFrom(path, ms, i + 1)

RECURSIVE SymbolsFrom(_, _, _)
SymbolsFrom(path, syms, i) ==
    IF i > Len(syms) THEN <<>>
    ELSE (IF syms[i].type \in {"function", "method"}
          THEN <<[file |-> path, sym |-> syms[i]]>>
          ELSE IF syms[i].type = "class"
               THEN MethodsFrom(path, syms[i].methods, 1)
               ELSE <<>>)
         \o SymbolsFrom(path, syms, i + 1)

RECURSIVE Visited(_, _)
Visited(index, i) ==
    IF i > Len(index) THEN <<>>
    ELSE SymbolsFrom(index[i].path, index[i].symbols, 1) \o Visited(index, i + 1)

NodeKeys(info) == {info[i].qname : i \in 1..Len(info)}

\* self.node_info[qname] = {...}: a new key is appended, a known key keeps its
\* place in the dict and gets the new value
Register(info, entry) ==
    IF entry.qname \in NodeKeys(info)
    THEN [i \in 1..Len(info) |-> IF info[i].qname = entry.qname THEN entry ELSE info[i]]
    ELSE Append(info, entry)

NodeEntry(v) ==
    [qname |-> QualifiedName(v.sym), file |-> v.file, start_line |-> v.sym.start_line,
     end_line |-> v.sym.end_line, parent |-> v.sym.parent]

\* first pass
RECURSIVE RegisterAll(_, _, _)
RegisterAll(vs, i, info) ==
    IF i > Len(vs) THEN info
    ELSE RegisterAll(vs, i + 1, Register(info, NodeEntry(vs[i])))

\* second pass
RECURSIVE ProcessAllIncremental(_, _, _, _)
ProcessAllIncremental(vs, i, known, g) ==
    IF i > Len(vs) THEN g
    ELSE ProcessAllIncremental(vs, i + 1, known,
             ProcessCalls(vs[i].sym, {QualifiedName(vs[j].sym) : j \in 1..i}, g))

RECURSIVE ProcessAll(_, _, _, _)
ProcessAll(vs, i, known, g) ==
    IF i > Len(vs) THEN g
    ELSE ProcessAll(vs, i + 1, known, ProcessCalls(vs[i].sym, known, g))

\* list(v) of a set, in some order
RECURSIVE ListOf(_)
ListOf(S) ==
    IF S = {} THEN <<>>
    ELSE LET x == CHOOSE y \in S : TRUE IN <<x>> \o ListOf(S \ {x})

\* CallGraph._save_cache: the JSON document written
SaveCache(g) ==
    [callees |-> [k \in DOMAIN g.callees |-> ListOf(g.callees[k])],
     callers |-> [k \in DOMAIN g.callers |-> ListOf(g.callers[k])],
     node_info |-> g.node_info]

\* CallGraph._load_cache: the graph read from the JSON document
LoadCacheSwapped(data) ==
    [callees |-> [k \in DOMAIN data.callers |-> Range(data.callers[k])],
     callers |-> [k \in DOMAIN data.callees |-> Range(data.callees[k])],
     node_info |-> data.node_info]

LoadCache(data) ==
    [callees |-> [k \in DOMAIN data.callees |-> Range(data.callees[k])],
     callers |-> [k \in DOMAIN data.callers |-> Range(data.callers[k])],
     node_info |-> data.node_info]

\* the computing branch of build_from_symbols on the graph g the object holds
Computed(index, g) ==
    LET vs    == Visited(index, 1)
        known == {QualifiedName(vs[i].sym) : i \in 1..Len(vs)}
        adj   == ProcessAll(vs, 1, known, [callees |-> g.callees, callers |-> g.callers])
    IN [callees |-> adj.callees, callers |-> adj.callers,
        node_info |-> RegisterAll(vs, 1, g.node_info)]

Graph == [callees |-> callees, callers |-> callers, node_info |-> node_info]

EmptyGraph == [callees |-> <<>>, callers |-> <<>>, node_info |-> <<>>]

\* CallGraph.build_from_symbols(symbol_index, force_rebuild)
Build(index, force_rebuild) ==
    /\ pc \in {"constructed", "built"}
    /\ builds < MaxBuilds
    /\ IF ~force_rebuild /\ cache_file # <<>>
       THEN /\ callees' = LoadCache(cache_file[1]).callees
            /\ callers' = LoadCache(cache_file[1]).callers
            /\ node_info' = LoadCache(cache_file[1]).node_info
            /\ loaded' = TRUE
            /\ built_clean' = <<>>
            /\ UNCHANGED <<cache_file, first_build>>
       ELSE LET g == Computed(index, Graph)
            IN /\ callees' = g.callees
               /\ callers' = g.callers
               /\ node_info' = g.node_info
               /\ cache_file' = <<SaveCache(g)>>
               /\ loaded' = FALSE
               /\ first_build' = <<[index |-> index, graph |-> g, same_object |-> TRUE]>>
               /\ built_clean' = IF Graph = EmptyGraph \/ built_clean = <<index>>
                                 THEN <<index>> ELSE <<>>
    /\ symbol_index' = index
    /\ builds' = builds + 1
    /\ pc' = "built"
    /\ UNCHANGED <<indexVars, fusionVars, search_candidates, selectVars, resolveVars, queryVars>>

\* CallGraph.__init__ in a later run: a new, empty object; the cache file stays
Construct ==
    /\ pc = "built"
    /\ callees' = <<>>
    /\ callers' = <<>>
    /\ node_info' = <<>>
    /\ first_build' = IF first_build = <<>> THEN <<>>
                      ELSE <<[first_build[1] EXCEPT !.same_object = FALSE]>>
    /\ built_clean' = <<>>
    /\ pc' = "constructed"
    /\ UNCHANGED <<indexVars, fusionVars, search_candidates, selectVars, resolveVars, queryVars,
                   cache_file, symbol_index, builds, loaded>>

InitGraph ==
    /\ pc = "constructed"
    /\ callees = <<>>
    /\ callers = <<>>
    /\ node_info = <<>>
    /\ cache_file = <<>>
    /\ symbol_index = <<>>
    /\ builds = 0
    /\ loaded = FALSE
    /\ first_build = <<>>
    /\ built_clean = <<>>
    /\ sym = <<>>
    /\ known_symbols = {}
    /\ resolved = <<>>
    /\ vector_results = <<>>
    /\ bm25_results = <<>>
    /\ keyword_chunks = <<>>
    /\ search_candidates = <<>>
    /\ targeted_chunks = <<>>
    /\ reranker_model = "none"
    /\ predict_raised = FALSE
    /\ reranked_search = <<>>
    /\ top_chunks = <<>>
    /\ operation = "none"
    /\ func_name = <<>>
    /\ direction = "down"
    /\ depth = 0
    /\ frames = <<>>
    /\ visited = {}
    /\ query_result = <<>>
    /\ file_lines = <<>>
    /\ file_chunks = <<>>
    /\ root_files = <<>>
    /\ rebuild_index = FALSE
    /\ metadata = <<>>
    /\ faiss_index = <<>>
    /\ vector_cache = <<>>
    /\ bm25 = <<>>
    /\ bm25_metadata = <<>>
    /\ bm25_cache = <<>>
    /\ graph_context_parts = <<>>
    /\ queries = <<>>
    /\ rg_outcome = "ok"
    /\ source_files = <<>>
    /\ symbol_cache = <<>>
    /\ load_result = "not_called"
    /\ sections = <<>>
    /\ file_paths = <<>>
    /\ max_chars_per_file = MAX_CHARS_PER_FILE
    /\ index_faiss = <<>>
    /\ metadata_json = <<>>
    /\ save_pc = "idle"
    /\ load_pc = "idle"
    /\ reader_index = <<>>
    /\ reader_metadata = <<>>

NextGraph ==
    \/ \E index \in SymbolIndexes, force_rebuild \in BOOLEAN : Build(index, force_rebuild)
    \/ Construct

SpecGraph == InitGraph /\ [][NextGraph]_vars

-----------------------------------------------------------------------------
(* Call graph queries: _fuzzy_resolve, get_callers, get_callees, trace_chain *)

\* the characters of the modelled names in code-point order
Alphabet == <<".", "A", "B", "K", "L", "a", "b", "c", "e", "f", "g", "h", "l", "m", "n", "s", "x", "z">>

CharCode(c) == CHOOSE i \in 1..Len(Alphabet) : Alphabet[i] = c

\* str.lower() on one character
LowerChar(c) ==
    CASE c = "A" -> "a" [] c = "B" -> "b" [] c = "K" -> "k" [] c = "L" -> "l"
      [] OTHER -> c

Lower(str) == [i \in 1..Len(str) |-> LowerChar(str[i])]

\* a in b  on strings
Contains(b, a) == \E i \in 1..(Len(b) - Len(a) + 1) : SubSeq(b, i, i + Len(a) - 1) = a

\* a < b  on strings
StrLess(a, b) ==
    \/ Len(a) < Len(b) /\ SubSeq(b, 1, Len(a)) = a
    \/ \E i \in 1..Min(Len(a), Len(b)) :
          /\ SubSeq(a, 1, i - 1) = SubSeq(b, 1, i - 1)
          /\ CharCode(a[i]) < CharCode(b[i])

\* sorted(neighbors)
RECURSIVE SortedNames(_)
SortedNames(S) ==
    IF S = {} THEN <<>>
    ELSE LET least == CHOOSE x \in S : \A y \in S \ {x} : StrLess(x, y)
         IN <<least>> \o SortedNames(S \ {least})

\* position of the first key of node_info that equals name ignoring case, or 0
FirstIgnoringCase(name, info) ==
    IF \E i \in 1..Len(info) : Lower(info[i].qname) = Lower(name)
    THEN CHOOSE i \in 1..Len(info) :
            /\ Lower(info[i].qname) = Lower(name)
            /\ \A j \in 1..(i - 1) : Lower(info[j].qname) # Lower(name)
    ELSE 0

SuffixOrEqual(name, info) ==
    {k \in NodeKeys(info) : EndsWith(k, <<".">> \o name) \/ k = name}

SubstringMatches(name, info) ==
    {k \in NodeKeys(info) : Contains(Lower(k), Lower(name))}

\* CallGraph._fuzzy_resolve
FuzzyResolve(name, info) ==
    IF name \in NodeKeys(info) THEN name
    ELSE IF FirstIgnoringCase(name, info) # 0
    THEN info[FirstIgnoringCase(name, info)].qname
    ELSE IF Cardinality(SuffixOrEqual(name, info)) = 1
    THEN CHOOSE k \in SuffixOrEqual(name, info) : TRUE
    ELSE IF Cardinality(SubstringMatches(name, info)) = 1
    THEN CHOOSE k \in SubstringMatches(name, info) : TRUE
    ELSE None

\* d.get(k, set())
GetSet(d, k) == IF k \in DOMAIN d THEN d[k] ELSE {}

\* info = dict(self.node_info.get(name, {})); info["name"] = name
InfoWithName(name, info) ==
    IF name \in NodeKeys(info)
    THEN LET e == info[CHOOSE i \in 1..Len(info) : info[i].qname = name]
         IN [name |-> name, file |-> e.file, start_line |-> e.start_line,
             end_line |-> e.end_line, parent |-> e.parent]
    ELSE [name |-> name]

\* CallGraph.get_callers: the entries of the returned list
GetCallers(fname, g) ==
    IF FuzzyResolve(fname, g.node_info) = None THEN {}
    ELSE {InfoWithName(c, g.node_info) :
             c \in GetSet(g.callers, FuzzyResolve(fname, g.node_info))}

\* CallGraph.get_callees
GetCallees(fname, g) ==
    IF FuzzyResolve(fname, g.node_info) = None THEN {}
    ELSE {InfoWithName(c, g.node_info) :
             c \in GetSet(g.callees, FuzzyResolve(fname, g.node_info))}

\* neighbors = self.callees.get(name, set()) if direction == "down"
\*             else self.callers.get(name, set())
NeighborsSwapped(name, dir, g) ==
    IF dir = "down" THEN GetSet(g.callers, name) ELSE GetSet(g.callees, name)

Neighbors(name, dir, g) ==
    IF dir = "down" THEN GetSet(g.callees, name) ELSE GetSet(g.callers, name)

\* if depth <= 0 or name in visited
TruncateNever(name, dep, vis) == FALSE

Truncate(name, dep, vis) == dep <= 0 \/ name \in vis

\* CallGraph._trace_recursive; the visited set is shared by the whole
\* traversal, so the set the call leaves behind is returned with the tree
RECURSIVE TraceRecursive(_, _, _, _, _)
RECURSIVE TraceChildren(_, _, _, _, _, _)
TraceRecursive(name, dir, dep, vis, g) ==
    IF Truncate(name, dep, vis)
    THEN [tree |-> [name |-> name, truncated |-> TRUE], visited |-> vis]
    ELSE LET kids == TraceChildren(SortedNames(Neighbors(name, dir, g)), 1,
                                   dir, dep - 1, vis \cup {name}, g)
             info == InfoWithName(name, g.node_info)
         IN [tree |-> IF kids.children # <<>>
                      THEN SetField(info, IF dir = "down" THEN "calls" ELSE "called_by",
                                    kids.children)
                      ELSE info,
             visited |-> kids.visited]

\* the loop  for neighbor in sorted(neighbors)  from index i on
TraceChildren(names, i, dir, dep, vis, g) ==
    IF i > Len(names) THEN [children |-> <<>>, visited |-> vis]
    ELSE LET first == TraceRecursive(names[i], dir, dep, vis, g)
             rest  == TraceChildren(names, i + 1, dir, dep, first.visited, g)
         IN [children |-> <<first.tree>> \o rest.children, visited |-> rest.visited]

\* CallGraph.trace_chain
TraceChain(fname, dir, dep, g) ==
    IF FuzzyResolve(fname, g.node_info) = None
    THEN [name |-> fname, not_found |-> TRUE]
    ELSE TraceRecursive(FuzzyResolve(fname, g.node_info), dir, dep, {}, g).tree

\* the children of a node of a chain tree
ChildrenOf(tree) ==
    IF "calls" \in DOMAIN tree THEN tree.calls
    ELSE IF "called_by" \in DOMAIN tree THEN tree.called_by
    ELSE <<>>

-----------------------------------------------------------------------------
(* The query methods as steps; _trace_recursive call by call *)

\* most top-level symbols in a file of the name-matching indexes
MaxSymbols == 2

\* largest depth argument of trace_chain
MaxDepth == 3

\* deepest call stack followed; _trace_recursive nests at most depth + 1 calls
MaxStack == MaxDepth + 2

nh == <<"h">>

nab == <<"a", "b">>

nAb == <<"A", "b">>

naB == <<"a", "B">>

nabc == <<"a", "b", "c">>

clsK == <<"K">>

clsL == <<"L">>

\* symbols whose names differ in case, share a suffix or contain one another
NamePool ==
    {FunctionSym(nab, {nabc}, 1),
     FunctionSym(nAb, {naB, nabc}, 3),
     FunctionSym(naB, {nAb}, 5),
     FunctionSym(nabc, {nab, nAb}, 7),
     ClassSym(clsK, <<MethodSym(nab, clsK, {SelfDot \o nab, naB}, 9)>>),
     ClassSym(clsL, <<MethodSym(nab, clsL, {nabc}, 11)>>)}

\* indexes for the queries: a file of up to MaxSymbols symbols of NamePool in
\* any order, or the functions f, g, h with chosen call lists (self-loops,
\* cycles and shared callees among them)
\* f calls g and/or h, g calls h, h calls x, x calls z: h is one or two calls
\* away from f
DiamondIndexes ==
    {<<[path |-> "a.py",
        symbols |-> <<FunctionSym(nf, cf, 1), FunctionSym(ng, {nh}, 3),
                      FunctionSym(nh, {<<"x">>}, 5), FunctionSym(<<"x">>, {<<"z">>}, 7),
                      FunctionSym(<<"z">>, {}, 9)>>]>> :
        cf \in {{ng, nh}, {ng}, {nh}}}

QueryIndexes ==
    {<<[path |-> "a.py", symbols |-> syms]>> :
        syms \in InjSeqsUpTo(NamePool, MaxSymbols) \ {<<>>}}
      \cup {<<[path |-> "a.py",
               symbols |-> <<FunctionSym(nf, cf, 1), FunctionSym(ng, cg, 3),
                             FunctionSym(nh, ch, 5)>>]>> :
               cf \in SUBSET {nf, ng, nh}, cg \in SUBSET {nf, nh}, ch \in SUBSET {nf}}
      \cup DiamondIndexes

QueryNames == {nab, <<"A", "B">>, <<"b">>, <<"c">>, nAb, nf, ng, <<"z">>}

Directions == {"down", "up"}

\* return value -> the caller: the loop of the calling frame appends it to
\* its children; the outermost return is what trace_chain returns
Deliver(tree) ==
    IF Len(frames) = 1
    THEN /\ frames' = <<>>
         /\ query_result' = <<tree>>
         /\ pc' = "answered"
    ELSE /\ frames' = [SubSeq(frames, 1, Len(frames) - 1)
                         EXCEPT ![Len(frames) - 1].children = Append(@, tree)]
         /\ query_result' = query_result
         /\ pc' = pc

\* CallGraph.get_callers(func_name)
CallGetCallers(fname) ==
    /\ pc = "built"
    /\ operation' = "get_callers"
    /\ func_name' = fname
    /\ query_result' = <<GetCallers(fname, Graph)>>
    /\ pc' = "answered"
    /\ UNCHANGED <<indexVars, fusionVars, search_candidates, selectVars, graphVars, resolveVars, buildVars,
                   direction, depth, frames, visited>>

\* CallGraph.get_callees(func_name)
CallGetCallees(fname) ==
    /\ pc = "built"
    /\ operation' = "get_callees"
    /\ func_name' = fname
    /\ query_result' = <<GetCallees(fname, Graph)>>
    /\ pc' = "answered"
    /\ UNCHANGED <<indexVars, fusionVars, search_candidates, selectVars, graphVars, resolveVars, buildVars,
                   direction, depth, frames, visited>>

\* CallGraph.trace_chain(func_name, direction, depth) up to its call of
\* _trace_recursive
CallTraceChain(fname, dir, dep) ==
    /\ pc = "built"
    /\ operation' = "trace_chain"
    /\ func_name' = fname
    /\ direction' = dir
    /\ depth' = dep
    /\ visited' = {}
    /\ IF FuzzyResolve(fname, node_info) = None
       THEN /\ query_result' = <<[name |-> fname, not_found |-> TRUE]>>
            /\ frames' = <<>>
            /\ pc' = "answered"
       ELSE /\ query_result' = <<>>
            /\ frames' = <<[at |-> "entry", name |-> FuzzyResolve(fname, node_info),
                            depth |-> dep, todo |-> <<>>, children |-> <<>>]>>
            /\ pc' = "tracing"
    /\ UNCHANGED <<indexVars, fusionVars, search_candidates, selectVars, graphVars, resolveVars, buildVars>>

\* _trace_recursive from its entry to the loop: the truncated leaf is
\* returned, or the node is marked visited and its neighbours are sorted
TraceEnter ==
    /\ pc = "tracing"
    /\ frames # <<>>
    /\ frames[Len(frames)].at = "entry"
    /\ LET top == frames[Len(frames)]
       IN IF Truncate(top.name, top.depth, visited)
          THEN /\ Deliver([name |-> top.name, truncated |-> TRUE])
               /\ visited' = visited
          ELSE /\ visited' = visited \cup {top.name}
               /\ frames' = [frames EXCEPT ![Len(frames)] =
                                [top EXCEPT !.at = "loop",
                                            !.todo = SortedNames(Neighbors(top.name, direction, Graph))]]
               /\ UNCHANGED <<query_result, pc>>
    /\ UNCHANGED <<indexVars, fusionVars, search_candidates, selectVars, graphVars, resolveVars, buildVars,
                   operation, func_name, direction, depth>>

\* one iteration of  for neighbor in sorted(neighbors): the recursive call
TraceDescend ==
    /\ pc = "tracing"
    /\ frames # <<>>
    /\ frames[Len(frames)].at = "loop"
    /\ frames[Len(frames)].todo # <<>>
    /\ Len(frames) < MaxStack
    /\ LET top == frames[Len(frames)]
       IN frames' = Append([frames EXCEPT ![Len(frames)].todo = Tail(top.todo)],
                           [at |-> "entry", name |-> Head(top.todo), depth |-> top.depth - 1,
                            todo |-> <<>>, children |-> <<>>])
    /\ UNCHANGED <<indexVars, fusionVars, search_candidates, selectVars, graphVars, resolveVars, buildVars,
                   operation, func_name, direction, depth, visited, query_result, pc>>

\* the end of the loop:  if children: info[key] = children;  return info
TraceReturn ==
    /\ pc = "tracing"
    /\ frames # <<>>
    /\ frames[Len(frames)].at = "loop"
    /\ frames[Len(frames)].todo = <<>>
    /\ LET top  == frames[Len(frames)]
           info == InfoWithName(top.name, node_info)
       IN Deliver(IF top.children # <<>>
                  THEN SetField(info, IF direction = "down" THEN "calls" ELSE "called_by",
                                top.children)
                  ELSE info)
    /\ UNCHANGED <<indexVars, fusionVars, search_candidates, selectVars, graphVars, resolveVars, buildVars,
                   operation, func_name, direction, depth, visited>>

InitQuery ==
    /\ pc = "built"
    /\ \E index \in QueryIndexes :
          /\ symbol_index = index
          /\ callees = Computed(index, EmptyGraph).callees
          /\ callers = Computed(index, EmptyGraph).callers
          /\ node_info = Computed(index, EmptyGraph).node_info
          /\ cache_file = <<SaveCache(Computed(index, EmptyGraph))>>
          /\ first_build = <<[index |-> index, graph |-> Computed(index, EmptyGraph),
                              same_object |-> TRUE]>>
          /\ built_clean = <<index>>
    /\ builds = 1
    /\ loaded = FALSE
    /\ sym = <<>>
    /\ known_symbols = {}
    /\ resolved = <<>>
    /\ vector_results = <<>>
    /\ bm25_results = <<>>
    /\ keyword_chunks = <<>>
    /\ search_candidates = <<>>
    /\ targeted_chunks = <<>>
    /\ reranker_model = "none"
    /\ predict_raised = FALSE
    /\ reranked_search = <<>>
    /\ top_chunks = <<>>
    /\ operation = "none"
    /\ func_name = <<>>
    /\ direction = "down"
    /\ depth = 0
    /\ frames = <<>>
    /\ visited = {}
    /\ query_result = <<>>
    /\ file_lines = <<>>
    /\ file_chunks = <<>>
    /\ root_files = <<>>
    /\ rebuild_index = FALSE
    /\ metadata = <<>>
    /\ faiss_index = <<>>
    /\ vector_cache = <<>>
    /\ bm25 = <<>>
    /\ bm25_metadata = <<>>
    /\ bm25_cache = <<>>
    /\ graph_context_parts = <<>>
    /\ queries = <<>>
    /\ rg_outcome = "ok"
    /\ source_files = <<>>
    /\ symbol_cache = <<>>
    /\ load_result = "not_called"
    /\ sections = <<>>
    /\ file_paths = <<>>
    /\ max_chars_per_file = MAX_CHARS_PER_FILE
    /\ index_faiss = <<>>
    /\ metadata_json = <<>>
    /\ save_pc = "idle"
    /\ load_pc = "idle"
    /\ reader_index = <<>>
    /\ reader_metadata = <<>>

NextQuery ==
    \/ \E fname \in QueryNames : CallGetCallers(fname)
    \/ \E fname \in QueryNames : CallGetCallees(fname)
    \/ \E fname \in QueryNames, dir \in Directions, dep \in 0..MaxDepth :
          CallTraceChain(fname, dir, dep)
    \/ TraceEnter
    \/ TraceDescend
    \/ TraceReturn

SpecQuery == InitQuery /\ [][NextQuery]_vars

\* every started call of _trace_recursive is run on
FairSpecQuery == SpecQuery /\ WF_vars(TraceEnter \/ TraceDescend \/ TraceReturn)

-----------------------------------------------------------------------------
(* VectorSearchTool._split_into_chunks: fixed-window chunking *)

\* Lines per chunk, and overlapping lines between chunks
CHUNK_SIZE == 50

CHUNK_OVERLAP == 10

\* longest file chunked
MaxLines == 95

\* A file is its path, its number of lines and the range of its lines that
\* hold white space only (empty when blank_from > blank_to).
FileOf(path, total_lines, blank_from, blank_to) ==
    [path |-> path, total_lines |-> total_lines,
     blank_from |-> blank_from, blank_to |-> blank_to]

IsBlank(f, line) == f.blank_from <= line /\ line <= f.blank_to

\* "".join(lines[start:end]).strip() is not empty
HasContent(f, start, end) ==
    \E line \in (start + 1)..Min(end, f.total_lines) : ~IsBlank(f, line)

\* f"File: {rel_path} (lines {start + 1}-{end})\n\n{content}": the text of the
\* lines is named by the lines
LinesContent(path, first, last) ==
    [header |-> "File (lines)", path |-> path, first |-> first, last |-> last]

\* f"File: {rel_path}\n\n{content}"
WholeContent(path, last) ==
    [header |-> "File", path |-> path, first |-> 1, last |-> last]

\* the chunk dict of lines[start:end]
WindowChunk(f, start, end) ==
    [file |-> f.path, start_line |-> start + 1, end_line |-> end,
     content |-> LinesContent(f.path, start + 1, end)]

\* the while loop of _split_into_chunks from the given start
RECURSIVE WindowsFromGap(_, _)
WindowsFromGap(f, start) ==
    IF start >= f.total_lines THEN <<>>
    ELSE LET end == Min(start + CHUNK_SIZE, f.total_lines)
         IN (IF HasContent(f, start, end) THEN <<WindowChunk(f, start, end)>> ELSE <<>>)
               \o WindowsFromGap(f, start + CHUNK_SIZE + CHUNK_OVERLAP)

RECURSIVE WindowsFrom(_, _)
WindowsFrom(f, start) ==
    IF start >= f.total_lines THEN <<>>
    ELSE LET end == Min(start + CHUNK_SIZE, f.total_lines)
         IN (IF HasContent(f, start, end) THEN <<WindowChunk(f, start, end)>> ELSE <<>>)
               \o WindowsFrom(f, start + CHUNK_SIZE - CHUNK_OVERLAP)

\* VectorSearchTool._split_into_chunks(rel_path, lines)
SplitIntoChunks(f) ==
    IF f.total_lines <= CHUNK_SIZE
    THEN IF HasContent(f, 0, f.total_lines)
         THEN <<[file |-> f.path, start_line |-> 1, end_line |-> f.total_lines,
                 content |-> WholeContent(f.path, f.total_lines)]>>
         ELSE <<>>
    ELSE WindowsFrom(f, 0)

\* files of 1..MaxLines lines without blank lines or with one blank stretch
\* that starts and ends where windows start and end
ChunkedFiles ==
    {FileOf("n.txt", total, from, to) :
        total \in 1..MaxLines,
        from \in {1, CHUNK_SIZE - CHUNK_OVERLAP + 1, CHUNK_SIZE + 1},
        to \in {0, CHUNK_SIZE - CHUNK_OVERLAP, CHUNK_SIZE, MaxLines}}

\* _chunk_files: file_chunks = self._split_into_chunks(rel_path, lines)
SplitFile ==
    /\ pc = "read"
    /\ file_chunks' = SplitIntoChunks(file_lines)
    /\ pc' = "chunked"
    /\ UNCHANGED <<fusionVars, search_candidates, selectVars, graphVars, resolveVars, buildVars,
                   queryVars, pipeVars, file_lines>>

InitChunk ==
    /\ pc = "read"
    /\ file_lines \in ChunkedFiles
    /\ file_chunks = <<>>
    /\ vector_results = <<>>
    /\ bm25_results = <<>>
    /\ keyword_chunks = <<>>
    /\ search_candidates = <<>>
    /\ targeted_chunks = <<>>
    /\ reranker_model = "none"
    /\ predict_raised = FALSE
    /\ reranked_search = <<>>
    /\ top_chunks = <<>>
    /\ callees = <<>>
    /\ callers = <<>>
    /\ node_info = <<>>
    /\ sym = <<>>
    /\ known_symbols = {}
    /\ resolved = <<>>
    /\ cache_file = <<>>
    /\ symbol_index = <<>>
    /\ builds = 0
    /\ loaded = FALSE
    /\ first_build = <<>>
    /\ built_clean = <<>>
    /\ operation = "none"
    /\ func_name = <<>>
    /\ direction = "down"
    /\ depth = 0
    /\ frames = <<>>
    /\ visited = {}
    /\ query_result = <<>>
    /\ root_files = <<>>
    /\ rebuild_index = FALSE
    /\ metadata = <<>>
    /\ faiss_index = <<>>
    /\ vector_cache = <<>>
    /\ bm25 = <<>>
    /\ bm25_metadata = <<>>
    /\ bm25_cache = <<>>
    /\ graph_context_parts = <<>>
    /\ queries = <<>>
    /\ rg_outcome = "ok"
    /\ source_files = <<>>
    /\ symbol_cache = <<>>
    /\ load_result = "not_called"
    /\ sections = <<>>
    /\ file_paths = <<>>
    /\ max_chars_per_file = MAX_CHARS_PER_FILE
    /\ index_faiss = <<>>
    /\ metadata_json = <<>>
    /\ save_pc = "idle"
    /\ load_pc = "idle"
    /\ reader_index = <<>>
    /\ reader_metadata = <<>>

NextChunk == SplitFile

SpecChunk == InitChunk /\ [][NextChunk]_vars

-----------------------------------------------------------------------------
(* VectorSearchTool: chunk_by_symbols, build_index_with_symbols, cache *)

nn == <<"n">>

\* the project indexed: a.py declares f (lines 1-2), class A (4-8) with the
\* methods m (5-6) and n (7-8), and g (10-11)
SymF == FunctionSym(nf, {ng}, 1)

SymA == ClassSym(clsA, <<MethodSym(nm, clsA, {SelfDot \o nn, ng}, 5),
                         MethodSym(nn, clsA, {}, 7)>>)

SymG == FunctionSym(ng, {}, 10)

\* symbol indexes of the project: a.py is missing (no symbols found, or a
\* parse failure), or holds some of its symbols (the extractor cache is not
\* renewed when the file grows)
ProjectIndexes ==
    {<<>>,
     <<[path |-> "a.py", symbols |-> <<SymF, SymG>>]>>,
     <<[path |-> "a.py", symbols |-> <<SymF, SymA>>]>>,
     <<[path |-> "a.py", symbols |-> <<SymF, SymA, SymG>>]>>}

\* the files under the search path, in os.walk order
ProjectFiles ==
    {<<FileOf("a.py", 12, 3, 3)>>,
     <<FileOf("a.py", 12, 3, 3), FileOf("n.txt", 4, 1, 0)>>}

\* symbol_index.get(rel_path, [])
SymbolsOfFile(index, path) ==
    IF \E i \in 1..Len(index) : index[i].path = path
    THEN index[CHOOSE i \in 1..Len(index) : index[i].path = path].symbols
    ELSE <<>>

\* code_symbols = [s for s in file_symbols if s.get("type") in (...)]
CodeSymbols(file_symbols) ==
    SelectSeq(file_symbols, LAMBDA sy : sy.type \in {"class", "function", "method"})

\* qualified = f"{parent}.{sym_name}" if parent else sym_name
ChunkQualified(sy) ==
    IF "parent" \in DOMAIN sy /\ sy.parent # None THEN Dotted(sy.parent, sy.name) ELSE sy.name

\* calls = sym.get("calls", []); for a class, the names of its methods
CallInfo(sy) ==
    IF "calls" \in DOMAIN sy /\ sy.calls # {} THEN sy.calls
    ELSE IF "methods" \in DOMAIN sy THEN {sy.methods[k].name : k \in 1..Len(sy.methods)}
    ELSE {}

\* the chunk of one symbol of file f, <<>> when its lines hold no content
SymbolChunk(f, sy) ==
    LET start == Max(0, sy.start_line - 1)
        end   == Min(f.total_lines, sy.end_line)
    IN IF ~HasContent(f, start, end) THEN <<>>
       ELSE <<[file |-> f.path, start_line |-> start + 1, end_line |-> end,
               content |-> [header |-> "File | symbol", path |-> f.path,
                            first |-> start + 1, last |-> end, sym_type |-> sy.type,
                            qualified |-> ChunkQualified(sy), call_info |-> CallInfo(sy)],
               symbol |-> ChunkQualified(sy), symbol_type |-> sy.type]>>

RECURSIVE SymbolChunksFrom(_, _, _)
SymbolChunksFrom(f, code_symbols, i) ==
    IF i > Len(code_symbols) THEN <<>>
    ELSE SymbolChunk(f, code_symbols[i]) \o SymbolChunksFrom(f, code_symbols, i + 1)

\* VectorSearchTool.chunk_by_symbols(root_path, symbol_index) from file i on
RECURSIVE ChunkBySymbolsFrom(_, _, _)
ChunkBySymbolsFrom(files, index, i) ==
    IF i > Len(files) THEN <<>>
    ELSE LET code_symbols == CodeSymbols(SymbolsOfFile(index, files[i].path))
         IN (IF code_symbols # <<>>
             THEN SymbolChunksFrom(files[i], code_symbols, 1)
             ELSE SplitIntoChunks(files[i]))
               \o ChunkBySymbolsFrom(files, index, i + 1)

ChunkBySymbols(files, index) == ChunkBySymbolsFrom(files, index, 1)

\* _save_cache: the entries of metadata.json
MetaForSave(meta) ==
    [i \in 1..Len(meta) |->
        [file |-> meta[i].file, start_line |-> meta[i].start_line,
         end_line |-> meta[i].end_line, content |-> meta[i].content]]

\* VectorSearchTool._load_cache on an object holding (idx, meta): whether it
\* succeeded, and what the object holds afterwards
LoadVectorCacheUnchecked(cache, idx, meta) ==
    IF cache = <<>> THEN [ok |-> FALSE, faiss_index |-> idx, metadata |-> meta]
    ELSE [ok |-> TRUE, faiss_index |-> <<cache[1].ntotal>>, metadata |-> cache[1].metadata]

LoadVectorCache(cache, idx, meta) ==
    IF cache = <<>> THEN [ok |-> FALSE, faiss_index |-> idx, metadata |-> meta]
    ELSE IF cache[1].ntotal # Len(cache[1].metadata)
         THEN [ok |-> FALSE, faiss_index |-> <<>>, metadata |-> <<>>]
         ELSE [ok |-> TRUE, faiss_index |-> <<cache[1].ntotal>>,
               metadata |-> cache[1].metadata]

\* VectorSearchTool.build_index_with_symbols(search_path, symbol_index,
\* force_rebuild=args.rebuild_index)
BuildIndexWithSymbols ==
    /\ pc = "analyzed"
    /\ LET l == IF rebuild_index
                THEN [ok |-> FALSE, faiss_index |-> faiss_index, metadata |-> metadata]
                ELSE LoadVectorCache(vector_cache, faiss_index, metadata)
           new_chunks == ChunkBySymbols(root_files, symbol_index)
       IN IF l.ok \/ new_chunks = <<>>
          THEN /\ faiss_index' = l.faiss_index
               /\ metadata' = l.metadata
               /\ vector_cache' = vector_cache
          ELSE /\ faiss_index' = <<Len(new_chunks)>>
               /\ metadata' = new_chunks
               /\ vector_cache' = <<[ntotal |-> Len(new_chunks),
                                     metadata |-> MetaForSave(new_chunks)]>>
    /\ load_result' = IF rebuild_index THEN "not_called"
                      ELSE IF vector_cache = <<>> THEN "absent"
                      ELSE IF LoadVectorCache(vector_cache, faiss_index, metadata).ok
                      THEN "loaded" ELSE "rejected"
    /\ pc' = "indexed"
    /\ UNCHANGED <<fusionVars, search_candidates, selectVars, graphVars, resolveVars, buildVars,
                   queryVars, chunkVars, root_files, rebuild_index, bm25, bm25_metadata,
                   bm25_cache, graph_context_parts, queries, rg_outcome, source_files,
                   symbol_cache,
                   retrieverVars, saveLoadVars>>

\* the result dict VectorSearchTool.search makes of a metadata entry
VectorHit(chunk) ==
    [file |-> chunk.file, line_number |-> chunk.start_line,
     start_line |-> chunk.start_line, end_line |-> chunk.end_line,
     content |-> chunk.content]

\* the result dict BM25SearchTool.search makes of a metadata entry
Bm25Hit(chunk) ==
    [file |-> chunk.file, start_line |-> chunk.start_line, end_line |-> chunk.end_line,
     content |-> chunk.content, source |-> "bm25"]

\* rankings an index of n entries can answer with: best first, entry numbers
\* from 1; the vector index answers with all its entries, BM25 with those of
\* positive score
FullRankings(n) ==
    {[i \in 1..n |-> i], [i \in 1..n |-> n + 1 - i]}

PartialRankings(n) ==
    FullRankings(n) \cup {<<>>} \cup {<<i>> : i \in 1..n}

\* VectorSearchTool.search(question, top_k=20)
VectorSearch ==
    /\ pc = "indexed"
    /\ IF faiss_index = <<>> \/ faiss_index[1] = 0
       THEN vector_results' = <<>>
       ELSE \E ranking \in FullRankings(faiss_index[1]) :
               LET hits == SelectSeq(ranking, LAMBDA idx : idx <= Len(metadata))
               IN vector_results' = [i \in 1..Len(hits) |-> VectorHit(metadata[hits[i]])]
    /\ pc' = "vector_searched"
    /\ UNCHANGED <<bm25_results, keyword_chunks, search_candidates, selectVars, graphVars,
                   resolveVars, buildVars, queryVars, indexVars>>

\* BM25SearchTool.build_index(vector_tool.metadata, force_rebuild=args.rebuild_index)
Bm25BuildIndex ==
    /\ pc = "vector_searched"
    /\ IF ~rebuild_index /\ bm25_cache # <<>>
       THEN /\ bm25' = bm25_cache[1].bm25
            /\ bm25_metadata' = bm25_cache[1].metadata
            /\ bm25_cache' = bm25_cache
       ELSE IF metadata = <<>>
            THEN /\ bm25' = <<>>
                 /\ bm25_metadata' = <<>>
                 /\ bm25_cache' = bm25_cache
            ELSE /\ bm25' = <<Len(metadata)>>
                 /\ bm25_metadata' = metadata
                 /\ bm25_cache' = <<[bm25 |-> <<Len(metadata)>>, metadata |-> metadata]>>
    /\ pc' = "bm25_built"
    /\ UNCHANGED <<fusionVars, search_candidates, selectVars, graphVars, resolveVars, buildVars,
                   queryVars, chunkVars, root_files, rebuild_index, metadata, faiss_index,
                   vector_cache, graph_context_parts, queries, rg_outcome, source_files,
                   symbol_cache, load_result,
                   retrieverVars, saveLoadVars>>

\* BM25SearchTool.search(question, top_k=20)
Bm25Search ==
    /\ pc = "bm25_built"
    /\ IF bm25 = <<>>
       THEN bm25_results' = <<>>
       ELSE \E ranking \in PartialRankings(bm25[1]) :
               bm25_results' =
                  [i \in 1..Len(ranking) |-> Bm25Hit(bm25_metadata[ranking[i]])]
    /\ pc' = "bm25_searched"
    /\ UNCHANGED <<vector_results, keyword_chunks, search_candidates, selectVars, graphVars,
                   resolveVars, buildVars, queryVars, indexVars>>

-----------------------------------------------------------------------------
(* SearchTool.search_and_chunk and the rest of the retrieval pass of main *)

\* search_and_chunk(query, search_path, context_lines=10)
CONTEXT_LINES == 10

\* for q in queries[:3]
QUERY_LIMIT == 3

\* depth of get_context_for_function(symbol_name, depth=2)
CONTEXT_DEPTH == 2

Match(path, line_number) == [file |-> path, line_number |-> line_number]

HasFile(files, path) == \E i \in 1..Len(files) : files[i].path = path

FileAt(files, path) == files[CHOOSE i \in 1..Len(files) : files[i].path = path]

\* the chunk search_and_chunk appends for a match
KeywordChunk(f, match) ==
    LET start_line == Max(1, match.line_number - CONTEXT_LINES)
        actual_end == Min(f.total_lines, match.line_number + CONTEXT_LINES)
    IN [file |-> f.path, start_line |-> start_line, end_line |-> actual_end,
        content |-> LinesContent(f.path, start_line, actual_end), source |-> "keyword"]

\* the loop  for match in matches  from index i on; seen_chunks holds the
\* ids (file, start_line, end_line) with the end line not yet cut to the file
RECURSIVE SearchAndChunkFrom(_, _, _, _)
SearchAndChunkFrom(matches, i, files, seen_chunks) ==
    IF i > Len(matches) THEN <<>>
    ELSE LET chunk_id == <<matches[i].file,
                           Max(1, matches[i].line_number - CONTEXT_LINES),
                           matches[i].line_number + CONTEXT_LINES>>
         IN IF chunk_id \in seen_chunks
            THEN SearchAndChunkFrom(matches, i + 1, files, seen_chunks)
            ELSE (IF HasFile(files, matches[i].file)
                  THEN <<KeywordChunk(FileAt(files, matches[i].file), matches[i])>>
                  ELSE <<>>)
                    \o SearchAndChunkFrom(matches, i + 1, files, seen_chunks \cup {chunk_id})

\* SearchTool.search_and_chunk on the matches ripgrep reports
SearchAndChunk(matches, files) == SearchAndChunkFrom(matches, 1, files, {})

\* keyword_chunks after the loop over queries[:3]
RECURSIVE KeywordChunksFrom(_, _, _)
KeywordChunksFrom(qs, i, files) ==
    IF i > Min(Len(qs), QUERY_LIMIT) THEN <<>>
    ELSE SearchAndChunk(qs[i], files) \o KeywordChunksFrom(qs, i + 1, files)

\* main.py 213-221.  Without the executable SearchTool.search raises; when
\* subprocess.run raises it returns [{"error": ...}] and search_and_chunk
\* raises on match["file"]; nothing in main catches either.
KeywordSearch ==
    /\ pc = "bm25_searched"
    /\ IF rg_outcome # "ok" /\ queries # <<>>
       THEN /\ keyword_chunks' = <<>>
            /\ pc' = "aborted"
       ELSE /\ keyword_chunks' = KeywordChunksFrom(queries, 1, root_files)
            /\ pc' = "retrieved"
    /\ UNCHANGED <<vector_results, bm25_results, search_candidates, selectVars, graphVars,
                   resolveVars, buildVars, queryVars, indexVars>>

\* main.py 252-260: the loop over top_chunks from index i on
RECURSIVE ExpandFrom(_, _, _)
ExpandFrom(selected, i, seen_symbols) ==
    IF i > Len(selected) THEN <<>>
    ELSE LET symbol_name == IF "symbol" \in DOMAIN selected[i] THEN selected[i].symbol ELSE <<>>
         IN IF symbol_name # <<>> /\ symbol_name \notin seen_symbols
            THEN (IF FuzzyResolve(symbol_name, node_info) # None
                  THEN <<[symbol |-> FuzzyResolve(symbol_name, node_info),
                          chain |-> TraceChain(FuzzyResolve(symbol_name, node_info),
                                               "down", CONTEXT_DEPTH, Graph)]>>
                  ELSE <<>>)
                    \o ExpandFrom(selected, i + 1, seen_symbols \cup {symbol_name})
            ELSE ExpandFrom(selected, i + 1, seen_symbols)

ExpandContext ==
    /\ pc = "selected"
    /\ graph_context_parts' = ExpandFrom(top_chunks, 1, {})
    /\ pc' = "expanded"
    /\ UNCHANGED <<fusionVars, search_candidates, selectVars, graphVars, resolveVars, buildVars,
                   queryVars, chunkVars, root_files, rebuild_index, metadata, faiss_index,
                   vector_cache, bm25, bm25_metadata, bm25_cache, queries, rg_outcome,
                   source_files, symbol_cache, load_result,
                   retrieverVars, saveLoadVars>>


\* the chain of get_context_for_function stands for the whole context text:
\* the other parts (location, callers, callees) are read from the same graph
\* for the same resolved name

\* ripgrep matches of the generated queries: q1 hits lines 2 and 3 of a.py,
\* q2 hits line 11 of a.py and a file that cannot be opened
Q1 == <<Match("a.py", 2), Match("a.py", 3)>>

Q2 == <<Match("a.py", 11), Match("gone.py", 1)>>

QueryLists == {<<>>, <<Q1>>, <<Q2, Q1>>, <<Q2, Q2, Q2, Q1>>}

RgOutcomes == {"ok", "unavailable", "error"}

FullIndex == <<[path |-> "a.py", symbols |-> <<SymF, SymA, SymG>>]>>

TwoFiles == <<FileOf("a.py", 12, 3, 3), FileOf("n.txt", 4, 1, 0)>>

\* what an earlier run on the same project left in .cache/vector_index: nothing,
\* a complete cache, or an index.faiss holding one vector more than metadata.json
VectorCaches(files, index) ==
    IF ChunkBySymbols(files, index) = <<>> THEN {<<>>}
    ELSE {<<>>,
          <<[ntotal |-> Len(ChunkBySymbols(files, index)),
             metadata |-> MetaForSave(ChunkBySymbols(files, index))]>>,
          <<[ntotal |-> Len(ChunkBySymbols(files, index)) + 1,
             metadata |-> MetaForSave(ChunkBySymbols(files, index))]>>}

\* what an earlier run left in .cache/bm25_index
Bm25Caches(files, index) ==
    IF ChunkBySymbols(files, index) = <<>> THEN {<<>>}
    ELSE {<<>>,
          <<[bm25 |-> <<Len(ChunkBySymbols(files, index))>>,
             metadata |-> ChunkBySymbols(files, index)]>>}

\* a bm25_index.pkl written by an earlier run, when a.py had no symbols in the
\* index (or by the general pipeline): it holds the whole-file chunk of a.py
OlderBm25Cache ==
    <<[bm25 |-> <<Len(SplitIntoChunks(FileOf("a.py", 12, 3, 3)))>>,
       metadata |-> SplitIntoChunks(FileOf("a.py", 12, 3, 3))]>>

\* main.py at step 5 of the code pipeline: symbols extracted, call graph
\* built, both tools constructed.  Either the caches and the index vary and one
\* query is searched, or the queries, the search executable, the targeted
\* chunks and the reranker vary on the full index without caches.
InitPipeline ==
    /\ pc = "analyzed"
    /\ \/ /\ symbol_index \in ProjectIndexes
          /\ root_files \in ProjectFiles
          /\ rebuild_index \in BOOLEAN
          /\ vector_cache \in VectorCaches(root_files, symbol_index)
          /\ bm25_cache \in Bm25Caches(root_files, symbol_index) \cup {OlderBm25Cache}
          /\ queries = <<Q1>>
          /\ rg_outcome = "ok"
          /\ targeted_chunks = <<>>
          /\ reranker_model = "none"
       \/ /\ symbol_index = FullIndex
          /\ root_files = TwoFiles
          /\ rebuild_index = FALSE
          /\ vector_cache = <<>>
          /\ bm25_cache = <<>>
          /\ queries \in QueryLists
          /\ rg_outcome \in RgOutcomes
          /\ targeted_chunks \in {<<>>, TargetedDocs(<<"b.py">>)}
          /\ reranker_model \in {"loaded", "none"}
    /\ callees = Computed(symbol_index, EmptyGraph).callees
    /\ callers = Computed(symbol_index, EmptyGraph).callers
    /\ node_info = Computed(symbol_index, EmptyGraph).node_info
    /\ cache_file = <<SaveCache(Computed(symbol_index, EmptyGraph))>>
    /\ first_build = <<[index |-> symbol_index, graph |-> Computed(symbol_index, EmptyGraph),
                        same_object |-> TRUE]>>
    /\ built_clean = <<symbol_index>>
    /\ builds = 1
    /\ loaded = FALSE
    /\ file_lines = <<>>
    /\ file_chunks = <<>>
    /\ vector_results = <<>>
    /\ bm25_results = <<>>
    /\ keyword_chunks = <<>>
    /\ search_candidates = <<>>
    /\ predict_raised = FALSE
    /\ reranked_search = <<>>
    /\ top_chunks = <<>>
    /\ sym = <<>>
    /\ known_symbols = {}
    /\ resolved = <<>>
    /\ operation = "none"
    /\ func_name = <<>>
    /\ direction = "down"
    /\ depth = 0
    /\ frames = <<>>
    /\ visited = {}
    /\ query_result = <<>>
    /\ metadata = <<>>
    /\ faiss_index = <<>>
    /\ bm25 = <<>>
    /\ bm25_metadata = <<>>
    /\ graph_context_parts = <<>>
    /\ source_files = <<>>
    /\ symbol_cache = <<>>
    /\ load_result = "not_called"
    /\ sections = <<>>
    /\ file_paths = <<>>
    /\ max_chars_per_file = MAX_CHARS_PER_FILE
    /\ index_faiss = <<>>
    /\ metadata_json = <<>>
    /\ save_pc = "idle"
    /\ load_pc = "idle"
    /\ reader_index = <<>>
    /\ reader_metadata = <<>>

NextPipeline ==
    \/ BuildIndexWithSymbols
    \/ VectorSearch
    \/ Bm25BuildIndex
    \/ Bm25Search
    \/ KeywordSearch
    \/ Fuse
    \/ Select
    \/ ExpandContext

SpecPipeline == InitPipeline /\ [][NextPipeline]_vars

-----------------------------------------------------------------------------
(* SymbolExtractor.extract_from_directory *)

\* what reading and ast.parse do on a file: parsed, SyntaxError, or the file
\* cannot be opened
ParseOutcomes == {"ok", "syntax_error", "unreadable"}

\* a file of the walk: its extension, what parsing it does, and the top-level
\* symbols its text declares
SourceFile(path, ext, outcome, symbols) ==
    [path |-> path, ext |-> ext, outcome |-> outcome, symbols |-> symbols]

\* SymbolExtractor._extract_python
ExtractPythonKeepAll(file) == file.symbols

ExtractPython(file) ==
    IF file.outcome = "unreadable" THEN <<>>
    ELSE IF file.outcome = "syntax_error" THEN <<>>
    ELSE file.symbols

\* the dispatch on the extension; the modelled project holds Python files and
\* files of no supported language
ExtractFile(file) ==
    IF file.ext = ".py" THEN ExtractPython(file) ELSE <<>>

\* the walk from file i on; acc is self.symbols in insertion order
RECURSIVE ExtractFrom(_, _, _)
ExtractFrom(files, i, acc) ==
    IF i > Len(files) THEN acc
    ELSE ExtractFrom(files, i + 1,
                     IF ExtractFile(files[i]) # <<>>
                     THEN Append(acc, [path |-> files[i].path,
                                       symbols |-> ExtractFile(files[i])])
                     ELSE acc)

\* the computing branch on a new SymbolExtractor
ExtractAll(files) == ExtractFrom(files, 1, <<>>)

SourceTrees ==
    LET as == {SourceFile("a.py", ".py", o, sy) :
                  o \in ParseOutcomes, sy \in {<<>>, <<SymF>>, <<SymF, SymG>>}}
        bs == {SourceFile("b.py", ".py", o, sy) :
                  o \in ParseOutcomes, sy \in {<<>>, <<SymG>>, <<SymA>>}}
        n  == SourceFile("n.md", ".md", "ok", <<>>)
    IN {<<a>> : a \in as} \cup {<<a, b>> : a \in as, b \in bs}
          \cup {<<a, n, b>> : a \in as, b \in bs}

\* symbol_index.json left by an earlier run
SymbolCaches == {<<>>, <<FullIndex>>}

\* SymbolExtractor.extract_from_directory(search_path, force_rebuild=args.rebuild_index);
\* the symbol records survive json.dump / json.load as they are
ExtractFromDirectory ==
    /\ pc = "walked"
    /\ IF ~rebuild_index /\ symbol_cache # <<>>
       THEN /\ symbol_index' = symbol_cache[1]
            /\ symbol_cache' = symbol_cache
       ELSE /\ symbol_index' = ExtractAll(source_files)
            /\ symbol_cache' = <<ExtractAll(source_files)>>
    /\ pc' = "extracted"
    /\ UNCHANGED <<fusionVars, search_candidates, selectVars, callees, callers, node_info,
                   resolveVars, cache_file, builds, loaded, first_build, built_clean,
                   queryVars, chunkVars, root_files, rebuild_index, metadata, faiss_index,
                   vector_cache, bm25, bm25_metadata, bm25_cache, graph_context_parts,
                   queries, rg_outcome, source_files, load_result,
                   retrieverVars, saveLoadVars>>

InitExtract ==
    /\ pc = "walked"
    /\ source_files \in SourceTrees
    /\ symbol_cache \in SymbolCaches
    /\ rebuild_index \in BOOLEAN
    /\ symbol_index = <<>>
    /\ vector_results = <<>>
    /\ bm25_results = <<>>
    /\ keyword_chunks = <<>>
    /\ search_candidates = <<>>
    /\ targeted_chunks = <<>>
    /\ reranker_model = "none"
    /\ predict_raised = FALSE
    /\ reranked_search = <<>>
    /\ top_chunks = <<>>
    /\ callees = <<>>
    /\ callers = <<>>
    /\ node_info = <<>>
    /\ sym = <<>>
    /\ known_symbols = {}
    /\ resolved = <<>>
    /\ cache_file = <<>>
    /\ builds = 0
    /\ loaded = FALSE
    /\ first_build = <<>>
    /\ built_clean = <<>>
    /\ operation = "none"
    /\ func_name = <<>>
    /\ direction = "down"
    /\ depth = 0
    /\ frames = <<>>
    /\ visited = {}
    /\ query_result = <<>>
    /\ file_lines = <<>>
    /\ file_chunks = <<>>
    /\ root_files = <<>>
    /\ metadata = <<>>
    /\ faiss_index = <<>>
    /\ vector_cache = <<>>
    /\ bm25 = <<>>
    /\ bm25_metadata = <<>>
    /\ bm25_cache = <<>>
    /\ graph_context_parts = <<>>
    /\ queries = <<>>
    /\ rg_outcome = "ok"
    /\ load_result = "not_called"
    /\ sections = <<>>
    /\ file_paths = <<>>
    /\ max_chars_per_file = MAX_CHARS_PER_FILE
    /\ index_faiss = <<>>
    /\ metadata_json = <<>>
    /\ save_pc = "idle"
    /\ load_pc = "idle"
    /\ reader_index = <<>>
    /\ reader_metadata = <<>>

NextExtract == ExtractFromDirectory

SpecExtract == InitExtract /\ [][NextExtract]_vars

-----------------------------------------------------------------------------
(* TargetedRetriever *)

\* str.strip() on a string given as its characters
RECURSIVE Strip(_)
Strip(p) ==
    IF p = <<>> THEN p
    ELSE IF Head(p) = " " THEN Strip(Tail(p))
    ELSE IF p[Len(p)] = " " THEN Strip(SubSeq(p, 1, Len(p) - 1))
    ELSE p

\* normalized = file_path.strip().replace("\\", "/")
Normalize(p) == Strip([i \in DOMAIN p |-> IF p[i] = "\\" THEN "/" ELSE p[i]])

\* os.path.basename: what follows the last "/"
RECURSIVE Basename(_)
Basename(p) == IF \E i \in DOMAIN p : p[i] = "/" THEN Basename(Tail(p)) ELSE p

\* cached_path.endswith(normalized) or normalized.endswith(cached_path)
SuffixMatch(cached_path, normalized) ==
    EndsWith(cached_path, normalized) \/ EndsWith(normalized, cached_path)

\* the first position of a non-empty set of positions (dict iteration order)
FirstOf(positions) == CHOOSE i \in positions : \A j \in positions : i <= j

\* TargetedRetriever.get_file_content(file_path) on the parsed sections:
\* <<>> for None, else <<content>>
GetFileContent(secs, file_path) ==
    LET normalized == Normalize(file_path)
        exact  == {i \in 1..Len(secs) : secs[i].path = normalized}
        suffix == {i \in 1..Len(secs) : SuffixMatch(secs[i].path, normalized)}
        base   == {i \in 1..Len(secs) : Basename(secs[i].path) = Basename(normalized)}
    IN IF exact # {} THEN <<secs[FirstOf(exact)].content>>
       ELSE IF suffix # {} THEN <<secs[FirstOf(suffix)].content>>
       ELSE IF base # {} THEN <<secs[FirstOf(base)].content>>
       ELSE <<>>

\* retrieve_files: "Find the matching cached path for metadata"
MatchedPath(secs, fpath) ==
    LET normalized == Normalize(fpath)
        hits == {i \in 1..Len(secs) :
                    \/ SuffixMatch(secs[i].path, normalized)
                    \/ Basename(secs[i].path) = Basename(normalized)}
    IN IF hits # {} THEN secs[FirstOf(hits)].path ELSE fpath

\* content[:max_chars] + "\n... [truncated]" when len(content) > max_chars
CutContent(content, max_chars) ==
    IF Len(content) > max_chars
    THEN SubSeq(content, 1, max_chars) \o <<"\n", "... [truncated]">>
    ELSE content

\* len(content.split("\n"))
LineCount(content) == Cardinality({i \in DOMAIN content : content[i] = "\n"}) + 1

\* the chunk retrieve_files appends for one found file
RetrievedChunk(secs, fpath, max_chars) ==
    LET content == CutContent(GetFileContent(secs, fpath)[1], max_chars)
    IN [file |-> MatchedPath(secs, fpath), content |-> content, start_line |-> 1,
        end_line |-> LineCount(content), source |-> "targeted", symbol |-> <<>>]

RECURSIVE RetrieveFrom(_, _, _, _)
RetrieveFrom(secs, paths, i, max_chars) ==
    IF i > Len(paths) THEN <<>>
    ELSE (IF GetFileContent(secs, paths[i]) = <<>> THEN <<>>
          ELSE <<RetrievedChunk(secs, paths[i], max_chars)>>)
            \o RetrieveFrom(secs, paths, i + 1, max_chars)

\* TargetedRetriever.retrieve_files(file_paths, max_chars_per_file)
RetrieveFiles ==
    /\ pc = "parsed"
    /\ targeted_chunks' = RetrieveFrom(sections, file_paths, 1, max_chars_per_file)
    /\ pc' = "retrieved"
    /\ UNCHANGED <<fusionVars, search_candidates, reranker_model, predict_raised,
                   reranked_search, top_chunks, graphVars, resolveVars, buildVars,
                   queryVars, indexVars>>

\* the paths of full_codebase.md, as characters: u, x/u, y/u, xu, v
CachedPaths ==
    {<<"u">>, <<"x", "/", "u">>, <<"y", "/", "u">>, <<"x", "u">>, <<"v">>}

\* the text of the file of each path: five different files, of 1 to 6 characters
ContentOf(path) ==
    IF path = <<"u">> THEN <<"1">>
    ELSE IF path = <<"x", "/", "u">> THEN <<"2", "\n", "2">>
    ELSE IF path = <<"y", "/", "u">> THEN <<"3", "\n", "3", "\n", "3", "3">>
    ELSE IF path = <<"x", "u">> THEN <<"4">>
    ELSE <<"5", "\n", "5", "5", "5", "5">>

\* the paths the skeleton analysis asks for: exact ones, one written with a
\* backslash and a leading blank, one whose directory is not cached, and one
\* that matches nothing
RequestedPaths ==
    {<<"u">>, <<"x", "/", "u">>, <<" ", "y", "\\", "u">>, <<"w", "/", "u">>, <<"v">>, <<"q">>}

MaxSections == 3

MaxRequested == 2

MaxCharsChoices == {4, MAX_CHARS_PER_FILE}

\* a TargetedRetriever whose full_codebase.md is parsed, before retrieve_files
InitTargeted ==
    /\ pc = "parsed"
    /\ sections \in {[i \in 1..Len(ps) |-> [path |-> ps[i], content |-> ContentOf(ps[i])]] :
                        ps \in InjSeqsUpTo(CachedPaths, MaxSections)}
    /\ file_paths \in SeqsUpTo(RequestedPaths, MaxRequested) \ {<<>>}
    /\ max_chars_per_file \in MaxCharsChoices
    /\ targeted_chunks = <<>>
    /\ source_files = <<>>
    /\ symbol_cache = <<>>
    /\ rebuild_index = FALSE
    /\ symbol_index = <<>>
    /\ vector_results = <<>>
    /\ bm25_results = <<>>
    /\ keyword_chunks = <<>>
    /\ search_candidates = <<>>
    /\ reranker_model = "none"
    /\ predict_raised = FALSE
    /\ reranked_search = <<>>
    /\ top_chunks = <<>>
    /\ callees = <<>>
    /\ callers = <<>>
    /\ node_info = <<>>
    /\ sym = <<>>
    /\ known_symbols = {}
    /\ resolved = <<>>
    /\ cache_file = <<>>
    /\ builds = 0
    /\ loaded = FALSE
    /\ first_build = <<>>
    /\ built_clean = <<>>
    /\ operation = "none"
    /\ func_name = <<>>
    /\ direction = "down"
    /\ depth = 0
    /\ frames = <<>>
    /\ visited = {}
    /\ query_result = <<>>
    /\ file_lines = <<>>
    /\ file_chunks = <<>>
    /\ root_files = <<>>
    /\ metadata = <<>>
    /\ faiss_index = <<>>
    /\ vector_cache = <<>>
    /\ bm25 = <<>>
    /\ bm25_metadata = <<>>
    /\ bm25_cache = <<>>
    /\ graph_context_parts = <<>>
    /\ queries = <<>>
    /\ rg_outcome = "ok"
    /\ load_result = "not_called"
    /\ index_faiss = <<>>
    /\ metadata_json = <<>>
    /\ save_pc = "idle"
    /\ load_pc = "idle"
    /\ reader_index = <<>>
    /\ reader_metadata = <<>>

NextTargeted == RetrieveFiles

SpecTargeted == InitTargeted /\ [][NextTargeted]_vars

-----------------------------------------------------------------------------
(* TargetedRetriever: properties *)

\* the content of the section stored under a path, cut as retrieve_files cuts it
SectionUnder(path) ==
    LET at == {i \in 1..Len(sections) : sections[i].path = path}
    IN IF at = {} THEN <<>>
       ELSE <<CutContent(sections[FirstOf(at)].content, max_chars_per_file)>>

\* C28: for every chunk returned by retrieve_files the path label and the
\* content come from the same cached file: the content is the cached section
\* stored under the chunk's file path, cut to max_chars_per_file, whether the
\* requested path matched exactly, by suffix or by basename, and also when
\* several cached paths share a suffix or basename.
C28_LabelMatchesContent ==
    pc = "retrieved" =>
        \A i \in 1..Len(targeted_chunks) :
            SectionUnder(targeted_chunks[i].file) = <<targeted_chunks[i].content>>

\* the same when at most one cached path can match each requested path
LabelMatchesContentWhenUnambiguous ==
    (/\ pc = "retrieved"
     /\ \A k \in 1..Len(file_paths) :
           Cardinality({i \in 1..Len(sections) :
                           \/ SuffixMatch(sections[i].path, Normalize(file_paths[k]))
                           \/ Basename(sections[i].path) = Basename(Normalize(file_paths[k]))}) <= 1)
        => \A i \in 1..Len(targeted_chunks) :
              SectionUnder(targeted_chunks[i].file) = <<targeted_chunks[i].content>>

-----------------------------------------------------------------------------
(* Vector cache: one run saving while another run loads *)

\* vectors = self.embedding_client.embed(texts): one vector per chunk, made of
\* the chunk's content
Embed(chunks) == [i \in 1..Len(chunks) |-> [embedding_of |-> chunks[i].content]]

\* index.faiss and metadata.json as _save_cache leaves them when nothing
\* interferes
SavedIndex(chunks) ==
    <<[complete |-> TRUE, ntotal |-> Len(chunks), vectors |-> Embed(chunks)]>>

SavedMeta(chunks) == <<[complete |-> TRUE, entries |-> MetaForSave(chunks)]>>

\* a file opened for writing and not yet written out
OpenedIndex == <<[complete |-> FALSE, ntotal |-> 0, vectors |-> <<>>]>>

OpenedMeta == <<[complete |-> FALSE, entries |-> <<>>]>>

\* _save_cache: faiss.write_index opens index.faiss for writing
SaveOpenIndex ==
    /\ save_pc = "built"
    /\ index_faiss' = OpenedIndex
    /\ save_pc' = "index_open"
    /\ UNCHANGED <<pc, fusionVars, search_candidates, selectVars, graphVars, resolveVars,
                   buildVars, queryVars, chunkVars, root_files, rebuild_index, metadata,
                   faiss_index, vector_cache, bm25, bm25_metadata, bm25_cache,
                   graph_context_parts, queries, rg_outcome, source_files, symbol_cache,
                   load_result, retrieverVars, metadata_json, load_pc, reader_index,
                   reader_metadata>>

\* _save_cache: faiss.write_index has written the index of the run
SaveWriteIndex ==
    /\ save_pc = "index_open"
    /\ index_faiss' = SavedIndex(metadata)
    /\ save_pc' = "index_written"
    /\ UNCHANGED <<pc, fusionVars, search_candidates, selectVars, graphVars, resolveVars,
                   buildVars, queryVars, chunkVars, root_files, rebuild_index, metadata,
                   faiss_index, vector_cache, bm25, bm25_metadata, bm25_cache,
                   graph_context_parts, queries, rg_outcome, source_files, symbol_cache,
                   load_result, retrieverVars, metadata_json, load_pc, reader_index,
                   reader_metadata>>

\* _save_cache: open(meta_path, "w") truncates metadata.json
SaveOpenMeta ==
    /\ save_pc = "index_written"
    /\ metadata_json' = OpenedMeta
    /\ save_pc' = "meta_open"
    /\ UNCHANGED <<pc, fusionVars, search_candidates, selectVars, graphVars, resolveVars,
                   buildVars, queryVars, chunkVars, root_files, rebuild_index, metadata,
                   faiss_index, vector_cache, bm25, bm25_metadata, bm25_cache,
                   graph_context_parts, queries, rg_outcome, source_files, symbol_cache,
                   load_result, retrieverVars, index_faiss, load_pc, reader_index,
                   reader_metadata>>

\* _save_cache: json.dump(meta_for_save, f) and the file is closed
SaveDumpMeta ==
    /\ save_pc = "meta_open"
    /\ metadata_json' = SavedMeta(metadata)
    /\ save_pc' = "saved"
    /\ UNCHANGED <<pc, fusionVars, search_candidates, selectVars, graphVars, resolveVars,
                   buildVars, queryVars, chunkVars, root_files, rebuild_index, metadata,
                   faiss_index, vector_cache, bm25, bm25_metadata, bm25_cache,
                   graph_context_parts, queries, rg_outcome, source_files, symbol_cache,
                   load_result, retrieverVars, index_faiss, load_pc, reader_index,
                   reader_metadata>>

\* _load_cache: if not os.path.exists(index_path) or not os.path.exists(meta_path)
LoadCheckExists ==
    /\ load_pc = "start"
    /\ IF index_faiss = <<>> \/ metadata_json = <<>>
       THEN load_result' = "absent" /\ load_pc' = "done"
       ELSE load_result' = load_result /\ load_pc' = "exists"
    /\ UNCHANGED <<pc, fusionVars, search_candidates, selectVars, graphVars, resolveVars,
                   buildVars, queryVars, chunkVars, root_files, rebuild_index, metadata,
                   faiss_index, vector_cache, bm25, bm25_metadata, bm25_cache,
                   graph_context_parts, queries, rg_outcome, source_files, symbol_cache,
                   retrieverVars, index_faiss, metadata_json, save_pc, reader_index,
                   reader_metadata>>

\* _load_cache: self.index = faiss.read_index(index_path); a file that is not
\* written out raises, and the except branch resets the object
LoadReadIndex ==
    /\ load_pc = "exists"
    /\ IF index_faiss[1].complete
       THEN /\ reader_index' = <<[ntotal |-> index_faiss[1].ntotal,
                                  vectors |-> index_faiss[1].vectors]>>
            /\ load_result' = load_result
            /\ load_pc' = "index_read"
       ELSE /\ reader_index' = <<>>
            /\ load_result' = "rejected"
            /\ load_pc' = "done"
    /\ reader_metadata' = IF index_faiss[1].complete THEN reader_metadata ELSE <<>>
    /\ UNCHANGED <<pc, fusionVars, search_candidates, selectVars, graphVars, resolveVars,
                   buildVars, queryVars, chunkVars, root_files, rebuild_index, metadata,
                   faiss_index, vector_cache, bm25, bm25_metadata, bm25_cache,
                   graph_context_parts, queries, rg_outcome, source_files, symbol_cache,
                   retrieverVars, index_faiss, metadata_json, save_pc>>

\* _load_cache: self.metadata = json.load(f), then the count check
LoadReadMeta ==
    /\ load_pc = "index_read"
    /\ IF /\ metadata_json[1].complete
          /\ reader_index[1].ntotal = Len(metadata_json[1].entries)
       THEN /\ reader_index' = reader_index
            /\ reader_metadata' = metadata_json[1].entries
            /\ load_result' = "loaded"
       ELSE /\ reader_index' = <<>>
            /\ reader_metadata' = <<>>
            /\ load_result' = "rejected"
    /\ load_pc' = "done"
    /\ UNCHANGED <<pc, fusionVars, search_candidates, selectVars, graphVars, resolveVars,
                   buildVars, queryVars, chunkVars, root_files, rebuild_index, metadata,
                   faiss_index, vector_cache, bm25, bm25_metadata, bm25_cache,
                   graph_context_parts, queries, rg_outcome, source_files, symbol_cache,
                   retrieverVars, index_faiss, metadata_json, save_pc>>

\* the chunk lists a run can have built from the project
BuiltChunkLists ==
    {ChunkBySymbols(files, index) : files \in ProjectFiles, index \in ProjectIndexes} \ {<<>>}

\* One run has built its index (build_index_with_symbols up to the call of
\* _save_cache) over the cache an earlier run left, which vector_cache keeps
\* for reference; another run enters _load_cache.
InitSaveLoad ==
    /\ pc = "saving"
    /\ metadata \in BuiltChunkLists
    /\ faiss_index = <<Len(metadata)>>
    /\ \E before \in BuiltChunkLists \cup {<<>>} :
          IF before = <<>>
          THEN vector_cache = <<>> /\ index_faiss = <<>> /\ metadata_json = <<>>
          ELSE /\ vector_cache = <<[ntotal |-> Len(before), metadata |-> MetaForSave(before)]>>
               /\ index_faiss = SavedIndex(before)
               /\ metadata_json = SavedMeta(before)
    /\ save_pc = "built"
    /\ load_pc = "start"
    /\ reader_index = <<>>
    /\ reader_metadata = <<>>
    /\ load_result = "not_called"
    /\ source_files = <<>>
    /\ symbol_cache = <<>>
    /\ rebuild_index = FALSE
    /\ symbol_index = <<>>
    /\ vector_results = <<>>
    /\ bm25_results = <<>>
    /\ keyword_chunks = <<>>
    /\ search_candidates = <<>>
    /\ reranker_model = "none"
    /\ predict_raised = FALSE
    /\ reranked_search = <<>>
    /\ top_chunks = <<>>
    /\ callees = <<>>
    /\ callers = <<>>
    /\ node_info = <<>>
    /\ sym = <<>>
    /\ known_symbols = {}
    /\ resolved = <<>>
    /\ cache_file = <<>>
    /\ builds = 0
    /\ loaded = FALSE
    /\ first_build = <<>>
    /\ built_clean = <<>>
    /\ operation = "none"
    /\ func_name = <<>>
    /\ direction = "down"
    /\ depth = 0
    /\ frames = <<>>
    /\ visited = {}
    /\ query_result = <<>>
    /\ file_lines = <<>>
    /\ file_chunks = <<>>
    /\ root_files = <<>>
    /\ bm25 = <<>>
    /\ bm25_metadata = <<>>
    /\ bm25_cache = <<>>
    /\ graph_context_parts = <<>>
    /\ queries = <<>>
    /\ rg_outcome = "ok"
    /\ targeted_chunks = <<>>
    /\ sections = <<>>
    /\ file_paths = <<>>
    /\ max_chars_per_file = MAX_CHARS_PER_FILE

NextSaveLoad ==
    \/ SaveOpenIndex
    \/ SaveWriteIndex
    \/ SaveOpenMeta
    \/ SaveDumpMeta
    \/ LoadCheckExists
    \/ LoadReadIndex
    \/ LoadReadMeta

SpecSaveLoad == InitSaveLoad /\ [][NextSaveLoad]_vars

-----------------------------------------------------------------------------
(* Vector cache: properties *)

\* what the loading run holds is the cache as a whole run wrote it
HoldsCacheOf(chunks) ==
    /\ load_result = "loaded"
    /\ reader_index = <<[ntotal |-> Len(chunks), vectors |-> Embed(chunks)]>>
    /\ reader_metadata = MetaForSave(chunks)

\* C21: a query that loads the cached index while another run rewrites the
\* cache never observes a partially written structure: when its load is over
\* it has read the complete previous cache (or found none where there was
\* none) or the complete new one.
C21_LoadSeesWholeCache ==
    load_pc = "done" =>
        \/ vector_cache = <<>> /\ load_result = "absent"
        \/ vector_cache # <<>>
             /\ \E before \in BuiltChunkLists :
                   /\ vector_cache[1].metadata = MetaForSave(before)
                   /\ HoldsCacheOf(before)
        \/ HoldsCacheOf(metadata)

\* a load that succeeded holds vectors and metadata of the same chunks
LoadedPartsBelongTogether ==
    (load_pc = "done" /\ load_result = "loaded")
        => reader_index[1].vectors = [i \in 1..Len(reader_metadata) |->
                                         [embedding_of |-> reader_metadata[i].content]]

-----------------------------------------------------------------------------
(* Retrieval pass: properties *)

\* the chunk came out of the index (vector or BM25 hit), not from the keyword
\* search or the targeted retrieval
FromIndex(chunk) ==
    ~("source" \in DOMAIN chunk /\ chunk.source \in {"keyword", "targeted"})

\* the qualified names the chunker put on the chunk of this file and range
TagsOf(chunk) ==
    LET made == ChunkBySymbols(root_files, symbol_index)
    IN {made[i].symbol : i \in {j \in 1..Len(made) : /\ "symbol" \in DOMAIN made[j]
                                                      /\ Key(made[j]) = Key(chunk)}}

\* C13: every chunk of the final selection that comes from a symbol-aligned
\* chunk whose symbol resolves in the call graph has that symbol's depth-2
\* downstream chain among the contexts handed to the synthesis
C13_SymbolContextReachesSynthesis ==
    pc = "expanded" =>
       \A i \in 1..Len(top_chunks) :
          FromIndex(top_chunks[i]) =>
             \A tag \in TagsOf(top_chunks[i]) :
                FuzzyResolve(tag, node_info) # None =>
                   \E p \in 1..Len(graph_context_parts) :
                      /\ graph_context_parts[p].symbol = FuzzyResolve(tag, node_info)
                      /\ graph_context_parts[p].chain =
                            TraceChain(tag, "down", CONTEXT_DEPTH, Graph)

\* no two entries of the list have the same (file, start_line, end_line)
TriplesUnique(docs) ==
    \A i, j \in 1..Len(docs) : Key(docs[i]) = Key(docs[j]) => i = j

\* C14: each ranked list handed to the fusion (vector, BM25, keyword) holds
\* no two entries with the same (file, start_line, end_line) triple
C14_TriplesUniquePerList ==
    pc = "retrieved" =>
       /\ TriplesUnique(vector_results)
       /\ TriplesUnique(bm25_results)
       /\ TriplesUnique(keyword_chunks)

\* the functions, classes and methods the index holds for a file, the methods
\* inside the class records included
DeclaredSymbols(file_symbols) ==
    {file_symbols[i] : i \in {j \in 1..Len(file_symbols) :
                                 file_symbols[j].type \in {"class", "function", "method"}}}
      \cup UNION {{file_symbols[i].methods[k] : k \in 1..Len(file_symbols[i].methods)} :
                     i \in {j \in 1..Len(file_symbols) : file_symbols[j].type = "class"}}

\* the chunks of the list made for the symbol: same file, its declared range,
\* tagged with its qualified name
ChunksOfSymbol(made, path, sy) ==
    {i \in 1..Len(made) : /\ made[i].file = path
                          /\ made[i].start_line = sy.start_line
                          /\ made[i].end_line = sy.end_line
                          /\ "symbol" \in DOMAIN made[i]
                          /\ made[i].symbol = ChunkQualified(sy)}

\* C15: after a symbol-aligned build, every function, class and method the
\* index holds for a file (methods of class records included) has exactly one
\* chunk spanning its declared range and tagged with its qualified name
C15_OneChunkPerSymbol ==
    (pc = "indexed" /\ metadata = ChunkBySymbols(root_files, symbol_index)) =>
       \A f \in 1..Len(root_files) :
          \A sy \in DeclaredSymbols(SymbolsOfFile(symbol_index, root_files[f].path)) :
             Cardinality(ChunksOfSymbol(metadata, root_files[f].path, sy)) = 1

\* C18: a failing keyword source (executable unavailable, or an error record
\* instead of matches) never aborts the retrieval pass: the keyword list is
\* empty and the fusion goes on with the other two lists
C18_SourceFailureNeverAborts ==
    /\ pc # "aborted"
    /\ (pc = "retrieved" /\ rg_outcome # "ok") => keyword_chunks = <<>>

\* index.faiss and metadata.json disagree on the number of entries
CacheMismatched(cache) == cache # <<>> /\ cache[1].ntotal # Len(cache[1].metadata)

\* number of vectors in the in-memory index (None counts as none)
VectorCount(idx) == IF idx = <<>> THEN 0 ELSE idx[1]

\* C19: a vector cache whose vector count differs from its metadata count is
\* never used: the build that finds it rebuilds from the files and leaves a
\* consistent cache, and after every build the number of vectors equals the
\* number of metadata entries
C19_MismatchedCacheRebuilt ==
    [][(pc = "analyzed" /\ pc' = "indexed") =>
          /\ VectorCount(faiss_index') = Len(metadata')
          /\ CacheMismatched(vector_cache) =>
                /\ load_result' # "loaded"
                /\ metadata' = ChunkBySymbols(root_files, symbol_index)
                /\ faiss_index' = <<Len(ChunkBySymbols(root_files, symbol_index))>>
                /\ ~CacheMismatched(vector_cache')]_vars

\* a build found a mismatched cache, rejected it and rebuilt the index
C19_Witness ==
    /\ pc = "indexed"
    /\ load_result = "rejected"
    /\ metadata = ChunkBySymbols(root_files, symbol_index)
    /\ Len(metadata) >= 2

\* the file is a Python file that ast.parse rejects
FailsToParse(file) == file.ext = ".py" /\ file.outcome = "syntax_error"

\* the walk as it would be without the files that fail to parse
WithoutFailing(files) == SelectSeq(files, LAMBDA file : ~FailsToParse(file))

IndexedPaths(index) == {index[i].path : i \in 1..Len(index)}

\* C17: an extraction that meets files failing to parse completes, gives
\* those files no entry in the mapping, and gives every other file the symbol
\* list it would have if the failing files were absent
C17_ParseFailureSkipsFile ==
    [][(pc = "walked" /\ (rebuild_index \/ symbol_cache = <<>>)) =>
          /\ pc' = "extracted"
          /\ \A i \in 1..Len(source_files) :
                FailsToParse(source_files[i]) =>
                   source_files[i].path \notin IndexedPaths(symbol_index')
          /\ symbol_index' = ExtractAll(WithoutFailing(source_files))]_vars

\* an extraction met a file with a syntax error that declares symbols, and
\* indexed a file that comes after it in the walk
C17_Witness ==
    /\ pc = "extracted"
    /\ rebuild_index
    /\ \E i, j \in 1..Len(source_files) :
          /\ i < j
          /\ FailsToParse(source_files[i])
          /\ source_files[i].symbols # <<>>
          /\ source_files[j].path \in IndexedPaths(symbol_index)

\* the (file, start_line, end_line) triples of a chunk list, in its order
TriplesOf(docs) == [i \in 1..Len(docs) |-> Key(docs[i])]

\* C27: after build_index_with_symbols and then the BM25 build_index on the
\* vector tool's metadata, both indexes describe the same chunk list, whatever
\* the caches held
C27_IndexesDescribeSameChunks ==
    pc = "bm25_built" => TriplesOf(bm25_metadata) = TriplesOf(metadata)

-----------------------------------------------------------------------------
(* Chunking: properties *)

NoBlankLine(f) == f.blank_from > f.blank_to

\* C16: a file of more than 50 lines (here: without blank lines) is cut into
\* windows of 50 lines of which only the last may be shorter, with start
\* lines 40 apart, consecutive windows sharing exactly 10 lines, and every
\* line is in some window; a smaller file gives one whole-file chunk.
C16_FixedWindows ==
    (pc = "chunked" /\ NoBlankLine(file_lines)) =>
        IF file_lines.total_lines > CHUNK_SIZE
        THEN /\ file_chunks # <<>>
             /\ file_chunks[1].start_line = 1
             /\ file_chunks[Len(file_chunks)].end_line = file_lines.total_lines
             /\ \A i \in 1..(Len(file_chunks) - 1) :
                   /\ file_chunks[i].end_line - file_chunks[i].start_line + 1 = CHUNK_SIZE
                   /\ file_chunks[i + 1].start_line - file_chunks[i].start_line
                         = CHUNK_SIZE - CHUNK_OVERLAP
                   /\ file_chunks[i].end_line - file_chunks[i + 1].start_line + 1
                         = CHUNK_OVERLAP
        ELSE /\ Len(file_chunks) = 1
             /\ file_chunks[1].start_line = 1
             /\ file_chunks[1].end_line = file_lines.total_lines

\* C30: fixed-window chunking covers the file and stays inside it: every line
\* with content lies in the span of some emitted chunk, and every chunk has
\* 1 <= start_line <= end_line <= n
C30_WindowsCoverFile ==
    pc = "chunked" =>
        /\ \A line \in 1..file_lines.total_lines :
              ~IsBlank(file_lines, line) =>
                 \E i \in 1..Len(file_chunks) :
                    file_chunks[i].start_line <= line /\ line <= file_chunks[i].end_line
        /\ \A i \in 1..Len(file_chunks) :
              /\ 1 <= file_chunks[i].start_line
              /\ file_chunks[i].start_line <= file_chunks[i].end_line
              /\ file_chunks[i].end_line <= file_lines.total_lines

\* a file of several windows with a blank stretch was chunked
C30_Witness ==
    /\ pc = "chunked"
    /\ file_lines.total_lines > CHUNK_SIZE + CHUNK_OVERLAP
    /\ ~NoBlankLine(file_lines)
    /\ Len(file_chunks) >= 2

-----------------------------------------------------------------------------
(* Call graph queries: properties *)

\* what the call of _trace_recursive that ended last returned
LastReturned ==
    IF frames = <<>> THEN query_result[1]
    ELSE frames[Len(frames)].children[Len(frames[Len(frames)].children)]

\* C4: every trace_chain call that was started returns, whatever the graph
\* (cycles and self-loops included), the direction and the depth >= 0; and a
\* call of _trace_recursive on a node that is already visited returns the
\* leaf {name, truncated: True} without marking or expanding anything.
C4_TraceTerminates ==
    /\ [][(/\ pc = "tracing"
           /\ frames # <<>>
           /\ frames[Len(frames)].at = "entry"
           /\ frames[Len(frames)].name \in visited)
             => /\ Len(frames') = Len(frames) - 1
                /\ visited' = visited
                /\ LastReturned' = [name |-> frames[Len(frames)].name, truncated |-> TRUE]]_vars
    /\ (pc = "tracing") ~> (pc = "answered")

\* a trace over a cycle has returned: a child of the root was expanded and has
\* the root as a truncated leaf although the depth was not used up there
C4_Witness ==
    /\ pc = "answered"
    /\ operation = "trace_chain"
    /\ depth >= 3
    /\ "not_found" \notin DOMAIN query_result[1]
    /\ \E i \in 1..Len(ChildrenOf(query_result[1])) :
          LET child == ChildrenOf(query_result[1])[i]
          IN \E j \in 1..Len(ChildrenOf(child)) :
                /\ ChildrenOf(child)[j].name = query_result[1].name
                /\ "truncated" \in DOMAIN ChildrenOf(child)[j]

\* the nodes that match a name at each stage of the fuzzy resolution
StageMatches(stage, name, info) ==
    CASE stage = 1 -> {k \in NodeKeys(info) : k = name}
      [] stage = 2 -> {k \in NodeKeys(info) : Lower(k) = Lower(name)}
      [] stage = 3 -> {k \in NodeKeys(info) : EndsWith(k, <<".">> \o name)}
      [] stage = 4 -> {k \in NodeKeys(info) : Contains(Lower(k), Lower(name))}

\* the first stage at which some node matches decides; its match is the
\* result when it is the only one, and there is no result otherwise
UniqueAtDecidingStage(name, info) ==
    IF \A stage \in 1..4 : StageMatches(stage, name, info) = {} THEN None
    ELSE LET deciding == CHOOSE stage \in 1..4 :
                            /\ StageMatches(stage, name, info) # {}
                            /\ \A earlier \in 1..(stage - 1) :
                                  StageMatches(earlier, name, info) = {}
         IN IF Cardinality(StageMatches(deciding, name, info)) = 1
            THEN CHOOSE k \in StageMatches(deciding, name, info) : TRUE
            ELSE None

\* what the query returns when the name resolves to node r (None: no node)
AnswerFor(r) ==
    CASE operation = "get_callers" ->
            IF r = None THEN {} ELSE {InfoWithName(c, node_info) : c \in GetSet(callers, r)}
      [] operation = "get_callees" ->
            IF r = None THEN {} ELSE {InfoWithName(c, node_info) : c \in GetSet(callees, r)}
      [] operation = "trace_chain" ->
            IF r = None THEN [name |-> func_name, not_found |-> TRUE]
            ELSE TraceRecursive(r, direction, depth, {}, Graph).tree

\* C9: get_callers, get_callees and trace_chain answer for the node that the
\* stages exact, case-insensitive, suffix, substring select in that order,
\* and for no node when several nodes match at the deciding stage.
C9_FuzzyResolveUnique ==
    pc = "answered" => query_result[1] = AnswerFor(UniqueAtDecidingStage(func_name, node_info))

\* the names of the nodes of a chain tree
RECURSIVE TreeNodes(_)
TreeNodes(tree) ==
    {tree.name} \cup UNION {TreeNodes(ChildrenOf(tree)[i]) : i \in 1..Len(ChildrenOf(tree))}

\* the nodes a path of at most dep edges in the direction leads to
RECURSIVE ReachableWithin(_, _, _, _)
ReachableWithin(name, dir, dep, g) ==
    IF dep <= 0 THEN {name}
    ELSE {name} \cup UNION {ReachableWithin(m, dir, dep - 1, g) : m \in Neighbors(name, dir, g)}

\* C24: every node within depth hops of the resolved start node in the given
\* direction is a node of the tree trace_chain returns
C24_TraceReachesDepth ==
    (pc = "answered" /\ operation = "trace_chain" /\ "not_found" \notin DOMAIN query_result[1]) =>
        ReachableWithin(query_result[1].name, direction, depth, Graph)
            \subseteq TreeNodes(query_result[1])

-----------------------------------------------------------------------------
(* Call graph build: properties *)

NodeSet(g) == NodeKeys(g.node_info)

EdgeSet(adj) == {e \in (DOMAIN adj) \X UNION {adj[k] : k \in DOMAIN adj} : e[2] \in adj[e[1]]}

\* C5: a build_from_symbols call with the index of the last computing build,
\* either recomputing on the same CallGraph or loading the cache that build
\* wrote, leaves the node set and the edge sets that build produced.
C5_BuildIdempotent ==
    [][(/\ builds' = builds + 1
        /\ first_build # <<>>
        /\ symbol_index' = first_build[1].index
        /\ (loaded' \/ first_build[1].same_object))
          => /\ NodeSet(Graph') = NodeSet(first_build[1].graph)
             /\ node_info' = first_build[1].graph.node_info
             /\ EdgeSet(callees') = EdgeSet(first_build[1].graph.callees)
             /\ EdgeSet(callers') = EdgeSet(first_build[1].graph.callers)]_vars

\* the second build loaded the cache of the first into a new CallGraph, and
\* the graph has an edge whose reverse is not an edge
C5_Witness ==
    /\ pc = "built"
    /\ builds = 2
    /\ loaded
    /\ first_build # <<>>
    /\ ~first_build[1].same_object
    /\ symbol_index = first_build[1].index
    /\ \E e \in EdgeSet(callees) : <<e[2], e[1]>> \notin EdgeSet(callees)

\* the function symbols f of an index and the raw calls g they list that are
\* qualified names of registered functions
DirectCalls(index) ==
    {fg \in {<<v.sym.name, c>> : v \in {x \in Range(Visited(index, 1)) : x.sym.type = "function"},
                                 c \in KnownPool \cup CallNames} :
        /\ \E v \in Range(Visited(index, 1)) :
              v.sym.type = "function" /\ v.sym.name = fg[1] /\ fg[2] \in v.sym.calls
        /\ \E v \in Range(Visited(index, 1)) :
              v.sym.type = "function" /\ v.sym.name = fg[2]}

\* the nodes of an index one of whose raw calls resolves to node g
CallersInIndex(g, index) ==
    LET vs    == Visited(index, 1)
        known == {QualifiedName(vs[i].sym) : i \in 1..Len(vs)}
    IN {QualifiedName(vs[i].sym) : i \in {j \in 1..Len(vs) :
            \E c \in vs[j].sym.calls : ResolveCall(c, vs[j].sym.parent, known) = g}}

\* C6: in a graph built from an index in which function f lists the raw call g
\* and g is a registered function, f -> g is an edge, get_callers(g) returns
\* exactly the nodes that call g, and trace_chain(f, "down", 1) is a tree
\* rooted at f with g as a child.
C6_DirectCallEdge ==
    (pc = "built" /\ built_clean # <<>>) =>
        \A fg \in DirectCalls(built_clean[1]) :
            /\ fg[1] \in DOMAIN callees /\ fg[2] \in callees[fg[1]]
            /\ {r.name : r \in GetCallers(fg[2], Graph)}
                  = CallersInIndex(fg[2], built_clean[1])
            /\ TraceChain(fg[1], "down", 1, Graph).name = fg[1]
            /\ \E i \in 1..Len(ChildrenOf(TraceChain(fg[1], "down", 1, Graph))) :
                  ChildrenOf(TraceChain(fg[1], "down", 1, Graph))[i].name = fg[2]

C6_Witness ==
    /\ pc = "built"
    /\ built_clean # <<>>
    /\ <<nf, ng>> \in DirectCalls(built_clean[1])
    /\ {r.name : r \in GetCallers(ng, Graph)} = {nf}
    /\ Len(ChildrenOf(TraceChain(nf, "down", 1, Graph))) = 1

\* the list holds no value twice
NoRepeat(list) == \A i, j \in 1..Len(list) : list[i] = list[j] => i = j

\* C23: after build_from_symbols or a cache load the graph is well formed:
\* B is in callees[A] exactly when A is in callers[B], no ordered pair is an
\* edge twice (also not in the lists of the cache file), and both endpoints of
\* every edge are nodes of node_info
C23_GraphWellFormed ==
    pc = "built" =>
        /\ \A e \in EdgeSet(callees) : <<e[2], e[1]>> \in EdgeSet(callers)
        /\ \A e \in EdgeSet(callers) : <<e[2], e[1]>> \in EdgeSet(callees)
        /\ \A e \in EdgeSet(callees) : e[1] \in NodeSet(Graph) /\ e[2] \in NodeSet(Graph)
        /\ cache_file # <<>> =>
              /\ \A k \in DOMAIN cache_file[1].callees : NoRepeat(cache_file[1].callees[k])
              /\ \A k \in DOMAIN cache_file[1].callers : NoRepeat(cache_file[1].callers[k])

\* a graph with a self-loop and another edge was loaded from the cache
C23_Witness ==
    /\ pc = "built"
    /\ loaded
    /\ \E e \in EdgeSet(callees) : e[1] = e[2]
    /\ \E e \in EdgeSet(callees) : e[1] # e[2]

\* C26: a forced rebuild (a computing build although a cache file exists)
\* leaves exactly the nodes and edges of its index, whatever the CallGraph
\* held before
C26_ForcedRebuildWholesale ==
    [][(builds' = builds + 1 /\ cache_file # <<>> /\ ~loaded') =>
          /\ NodeSet(Graph') = NodeSet(Computed(symbol_index', EmptyGraph))
          /\ EdgeSet(callees') = EdgeSet(Computed(symbol_index', EmptyGraph).callees)
          /\ EdgeSet(callers') = EdgeSet(Computed(symbol_index', EmptyGraph).callers)]_vars

\* the same for a forced rebuild on a CallGraph that holds nothing
ForcedRebuildOnEmptyGraph ==
    [][(builds' = builds + 1 /\ cache_file # <<>> /\ ~loaded' /\ Graph = EmptyGraph) =>
          /\ NodeSet(Graph') = NodeSet(Computed(symbol_index', EmptyGraph))
          /\ EdgeSet(callees') = EdgeSet(Computed(symbol_index', EmptyGraph).callees)
          /\ EdgeSet(callers') = EdgeSet(Computed(symbol_index', EmptyGraph).callers)]_vars

\* the index with the symbols of every file in every order
RECURSIVE PermuteSymbols(_)
PermuteSymbols(index) ==
    IF index = <<>> THEN {<<>>}
    ELSE {<<[path |-> Head(index).path, symbols |-> sp]>> \o rest :
             sp \in Perms(Head(index).symbols), rest \in PermuteSymbols(Tail(index))}

\* the index with its files and the symbols of every file in every order
Reorderings(index) == UNION {PermuteSymbols(fp) : fp \in Perms(index)}

\* C25: a computing build yields the same edge set for every order of the
\* files of the index and of the symbols within a file, so a callee declared
\* after its caller is resolved like one declared before
C25_EdgesIndependentOfOrder ==
    [][(builds' = builds + 1 /\ ~loaded') =>
          \A other \in Reorderings(symbol_index') :
             /\ EdgeSet(Computed(other, Graph).callees) = EdgeSet(callees')
             /\ EdgeSet(Computed(other, Graph).callers) = EdgeSet(callers')]_vars

\* a build computed the edge f -> g from an index that declares f before g
C25_Witness ==
    /\ pc = "built"
    /\ ~loaded
    /\ built_clean # <<>>
    /\ Len(symbol_index) = 1
    /\ Len(symbol_index[1].symbols) = 2
    /\ symbol_index[1].symbols[1].name = nf
    /\ symbol_index[1].symbols[2].name = ng
    /\ <<nf, ng>> \in EdgeSet(callees)

-----------------------------------------------------------------------------
(* Call resolution: properties *)

TheCall == CHOOSE c \in sym.calls : TRUE

\* the text after the last '.' of a raw call reference that has one
BareNames(c) ==
    {b \in {SubSeq(c, i + 1, Len(c)) : i \in 1..Len(c)} :
        /\ \E i \in 1..Len(c) : c[i] = "." /\ b = SubSeq(c, i + 1, Len(c))
        /\ \A j \in 1..Len(b) : b[j] # "."}

\* nodes whose qualified name is <something>.<b>
NodesWithSuffix(b, nodes) ==
    {n \in nodes : \E i \in 1..Len(n) : n[i] = "." /\ SubSeq(n, i + 1, Len(n)) = b}

\* (a) the raw text equals a node's qualified name
RuleExact(c, nodes) == {c} \cap nodes

\* (b) the raw text is self.<m>, the caller has a parent, <parent>.<m> is a node
RuleSelf(c, p, nodes) ==
    {n \in nodes : p # None /\ \E i \in 1..Len(c) :
        c = SelfDot \o SubSeq(c, i, Len(c)) /\ n = p \o <<".">> \o SubSeq(c, i, Len(c))}

\* the text after the last '.' is itself a node's qualified name
RuleBare(c, nodes) == BareNames(c) \cap nodes

\* (c) the text after the last '.' is the bare name of exactly one node whose
\* qualified name ends in .<bare name>
RuleUniqueSuffix(c, nodes) ==
    UNION {IF Cardinality(NodesWithSuffix(b, nodes)) = 1
           THEN NodesWithSuffix(b, nodes) ELSE {} : b \in BareNames(c)}

\* (d) <caller's parent>.<raw text> is a node
RuleParent(c, p, nodes) == {n \in nodes : p # None /\ n = p \o <<".">> \o c}

\* the result of the first rule, in the given order, that matches; (e) None
RECURSIVE FirstMatch(_)
FirstMatch(rules) ==
    IF rules = <<>> THEN None
    ELSE IF Head(rules) # {} THEN CHOOSE n \in Head(rules) : TRUE
    ELSE FirstMatch(Tail(rules))

ClaimedRules(c, p, nodes) ==
    <<RuleExact(c, nodes), RuleSelf(c, p, nodes), RuleUniqueSuffix(c, nodes),
      RuleParent(c, p, nodes)>>

RulesWithBare(c, p, nodes) ==
    <<RuleExact(c, nodes), RuleSelf(c, p, nodes), RuleBare(c, nodes),
      RuleUniqueSuffix(c, nodes), RuleParent(c, p, nodes)>>

\* the adjacency maps hold exactly the edge caller -> r, or nothing for None
EdgeRecordedIs(r) ==
    IF r = None
    THEN callees = <<>> /\ callers = <<>>
    ELSE /\ callees = (QualifiedName(sym) :> {r})
         /\ callers = (r :> {QualifiedName(sym)})

\* C7 as claimed: _resolve_call returns the result of the first matching rule
\* in the order exact, self.<m>, unique suffix, parent prefix, else unresolved
\* with no edge; and nothing else.
C7_ResolveAsClaimed ==
    pc = "processed" =>
        /\ resolved = FirstMatch(ClaimedRules(TheCall, sym.parent, known_symbols))
        /\ EdgeRecordedIs(resolved)

\* C7 amended: the order is exact, self.<m>, the text after the last '.' being
\* itself a node, unique suffix, parent prefix, else unresolved with no edge.
C7_ResolveWithBareRule ==
    pc = "processed" =>
        /\ resolved = FirstMatch(RulesWithBare(TheCall, sym.parent, known_symbols))
        /\ EdgeRecordedIs(resolved)

C7_Witness ==
    /\ pc = "processed"
    /\ RuleExact(TheCall, known_symbols) = {}
    /\ RuleSelf(TheCall, sym.parent, known_symbols) = {}
    /\ RuleBare(TheCall, known_symbols) # {}
    /\ RuleUniqueSuffix(TheCall, known_symbols) # {}
    /\ resolved \in RuleBare(TheCall, known_symbols)
    /\ callees # <<>>

AmbiguousSuffix ==
    /\ RuleExact(TheCall, known_symbols) = {}
    /\ RuleSelf(TheCall, sym.parent, known_symbols) = {}
    /\ \E b \in BareNames(TheCall) : Cardinality(NodesWithSuffix(b, known_symbols)) > 1

\* C8 as claimed: a call that matches neither the exact nor the self. rule and
\* whose bare name is the suffix of more than one node records no edge, unless
\* the parent-prefixed fallback names a node.
C8_AmbiguousDropped ==
    (pc = "processed" /\ AmbiguousSuffix
        /\ RuleParent(TheCall, sym.parent, known_symbols) = {})
      => (resolved = None /\ callees = <<>> /\ callers = <<>>)

\* C8 amended: ... unless the bare name is itself a node's qualified name or
\* the parent-prefixed fallback names a node.
C8_AmbiguousDroppedUnlessBare ==
    (pc = "processed" /\ AmbiguousSuffix
        /\ RuleBare(TheCall, known_symbols) = {}
        /\ RuleParent(TheCall, sym.parent, known_symbols) = {})
      => (resolved = None /\ callees = <<>> /\ callers = <<>>)

C8_Witness ==
    /\ pc = "processed"
    /\ AmbiguousSuffix
    /\ RuleBare(TheCall, known_symbols) = {}
    /\ RuleParent(TheCall, sym.parent, known_symbols) = {}
    /\ sym.parent # None
    /\ callees = <<>>

-----------------------------------------------------------------------------
(* Selector: properties *)

\* C1: the final selection holds every targeted chunk: the targeted chunks are
\* its first len(targeted) entries, unchanged and in their original order, and
\* every entry after them is a reranked chunk; with or without the scorer.
C1_TargetedKeptFirst ==
    pc = "selected" =>
        /\ Len(top_chunks) >= Len(targeted_chunks)
        /\ \A i \in 1..Len(targeted_chunks) : top_chunks[i] = targeted_chunks[i]
        /\ \A i \in (Len(targeted_chunks) + 1)..Len(top_chunks) :
              top_chunks[i] \in Range(reranked_search)

C1_Witness ==
    /\ pc = "selected"
    /\ reranker_model = "loaded"
    /\ ~predict_raised
    /\ Len(targeted_chunks) >= 2
    /\ targeted_chunks[1].file # targeted_chunks[2].file
    /\ Len(top_chunks) > Len(targeted_chunks)
    /\ \E i \in 1..Len(reranked_search) : reranked_search[i].file = targeted_chunks[1].file

\* N = max(3, 8 - len(targeted))
SlotBudget == Max(3, 8 - Len(targeted_chunks))

\* C10: when the scorer scored the candidates, the chunks handed to the merge
\* are min(N, number of fused candidates) fused candidates, N = max(3, 8 -
\* len(targeted)), in descending score order, and no candidate left out has a
\* strictly higher score than one that was taken.
C10_TopNByScore ==
    (pc = "selected" /\ reranker_model = "loaded" /\ ~predict_raised) =>
        /\ Len(reranked_search) = Min(SlotBudget, Len(search_candidates))
        /\ \A i \in 1..Len(reranked_search) : reranked_search[i] \in Range(search_candidates)
        /\ \A i, j \in 1..Len(reranked_search) :
              i < j => /\ reranked_search[i] # reranked_search[j]
                       /\ reranked_search[i].rerank_score >= reranked_search[j].rerank_score
        /\ \A c \in Range(search_candidates) \ Range(reranked_search) :
              \A i \in 1..Len(reranked_search) :
                  c.rerank_score <= reranked_search[i].rerank_score

C10_Witness ==
    /\ pc = "selected"
    /\ reranker_model = "loaded"
    /\ ~predict_raised
    /\ Len(search_candidates) > SlotBudget
    /\ Len(reranked_search) = SlotBudget
    /\ reranked_search[1] # search_candidates[1]
    /\ \E c \in Range(search_candidates) \ Range(reranked_search) :
          c.rerank_score < reranked_search[1].rerank_score

\* the files of the targeted chunks
TargetedPaths == {targeted_chunks[i].file : i \in 1..Len(targeted_chunks)}

\* the part of the final selection after the targeted chunks
AfterTargeted == SubSeq(top_chunks, Len(targeted_chunks) + 1, Len(top_chunks))

\* the reranked chunks from index i on whose file is not a targeted file
RECURSIVE OutsideTargetedFrom(_)
OutsideTargetedFrom(i) ==
    IF i > Len(reranked_search) THEN <<>>
    ELSE (IF reranked_search[i].file \notin TargetedPaths
          THEN <<reranked_search[i]>> ELSE <<>>) \o OutsideTargetedFrom(i + 1)

\* ... and is not the file of a reranked chunk before them either
RECURSIVE FirstPerFileFrom(_)
FirstPerFileFrom(i) ==
    IF i > Len(reranked_search) THEN <<>>
    ELSE (IF /\ reranked_search[i].file \notin TargetedPaths
             /\ \A j \in 1..(i - 1) : reranked_search[j].file # reranked_search[i].file
          THEN <<reranked_search[i]>> ELSE <<>>) \o FirstPerFileFrom(i + 1)

\* C11 as claimed: after the targeted chunks the final selection holds, in
\* reranked order, exactly the reranked chunks whose file is not the file of
\* a targeted chunk.
C11_SkipExactlyTargetedFiles ==
    pc = "selected" => AfterTargeted = OutsideTargetedFrom(1)

\* C11 amended: after the targeted chunks the final selection holds, in
\* reranked order, exactly the reranked chunks whose file is neither the file
\* of a targeted chunk nor the file of an earlier reranked chunk.
C11_SkipSeenFiles ==
    pc = "selected" => AfterTargeted = FirstPerFileFrom(1)

\* a reranked chunk was skipped for a targeted file, another for the file of
\* an earlier reranked chunk, and one was kept
C11_Witness ==
    /\ pc = "selected"
    /\ \E i \in 1..Len(reranked_search) : reranked_search[i].file \in TargetedPaths
    /\ \E i, j \in 1..Len(reranked_search) :
          /\ i < j
          /\ reranked_search[i].file = reranked_search[j].file
          /\ reranked_search[i].file \notin TargetedPaths
    /\ AfterTargeted # <<>>
    /\ Len(AfterTargeted) < Len(OutsideTargetedFrom(1))

\* C12: when the model failed to load or model.predict raises, the rerank
\* call still returns and the merge takes place; what it returns is the first
\* top_k fused candidates, in fused order, the chunk dicts unchanged and none
\* of them with a rerank_score.
C12_ScorerFallback ==
    [][(/\ pc = "fused"
        /\ pc' = "selected"
        /\ (reranker_model = "none" \/ predict_raised'))
          => /\ reranked_search' =
                  SubSeq(search_candidates, 1, Min(SlotBudget, Len(search_candidates)))
             /\ search_candidates' = search_candidates
             /\ \A i \in 1..Len(reranked_search') :
                   "rerank_score" \notin DOMAIN reranked_search'[i]
             /\ top_chunks' = Combine(targeted_chunks, reranked_search')]_vars

\* predict raised on more candidates than the slot budget
C12_Witness ==
    /\ pc = "selected"
    /\ predict_raised
    /\ Len(search_candidates) > SlotBudget
    /\ Len(reranked_search) = SlotBudget
    /\ \A i \in 1..Len(reranked_search) : reranked_search[i] = search_candidates[i]

\* C29: the final selection holds at most len(targeted) + max(3, 8 -
\* len(targeted)) chunks, hence at most 8 when there are at most 5 targeted
C29_SelectionBounded ==
    pc = "selected" =>
        /\ Len(top_chunks) <= Len(targeted_chunks) + Max(MinSlots, TotalBudget - Len(targeted_chunks))
        /\ Len(targeted_chunks) <= 5 => Len(top_chunks) <= TotalBudget

\* five targeted chunks and more candidates of other files than slots: the
\* selection is full
C29_Witness ==
    /\ pc = "selected"
    /\ Len(targeted_chunks) = 5
    /\ Len(search_candidates) > MinSlots
    /\ Len(top_chunks) = TotalBudget

-----------------------------------------------------------------------------
(* Fusion: properties *)

\* the lists in another order
PermutedLists(lists, perm) == [i \in 1..Len(lists) |-> lists[perm[i]]]

\* position of the triple in a fused list
PosIn(fused, key) == CHOOSE p \in 1..Len(fused) : Key(fused[p]) = key

\* the two fused lists have the same triples with the same scores
SameScores(f1, f2) ==
    /\ {Key(f1[i]) : i \in 1..Len(f1)} = {Key(f2[i]) : i \in 1..Len(f2)}
    /\ Len(f1) = Len(f2)
    /\ \A i \in 1..Len(f1) : f2[PosIn(f2, Key(f1[i]))].rrf_score = f1[i].rrf_score

\* chunks with different scores are in the same relative order
SameOrderUpToTies(f1, f2) ==
    \A i, j \in 1..Len(f1) :
       (i < j /\ f1[i].rrf_score # f1[j].rrf_score)
          => PosIn(f2, Key(f1[i])) < PosIn(f2, Key(f1[j]))

\* each triple has the same chunk record
SameRecords(f1, f2) ==
    \A i \in 1..Len(f1) : f2[PosIn(f2, Key(f1[i]))] = f1[i]

\* C22: for any permutation of the input lists the fused output has the same
\* triples with the same scores, the same chunk record for each triple, and
\* the same relative order of chunks with different scores
C22_FusionSymmetric ==
    [][(pc = "retrieved" /\ pc' = "fused") =>
          \A perm \in ListOrders(Len(ResultsLists)) :
             LET other == MergedResults(PermutedLists(ResultsLists, perm))
             IN /\ SameScores(search_candidates', other)
                /\ SameOrderUpToTies(search_candidates', other)
                /\ SameRecords(search_candidates', other)]_vars

\* what does hold: triples, scores and the order up to ties
FusionSymmetricUpToRecords ==
    [][(pc = "retrieved" /\ pc' = "fused") =>
          \A perm \in ListOrders(Len(ResultsLists)) :
             LET other == MergedResults(PermutedLists(ResultsLists, perm))
             IN /\ SameScores(search_candidates', other)
                /\ SameOrderUpToTies(search_candidates', other)]_vars

\* C20: reciprocal_rank_fusion leaves its input lists as they were: same
\* length, same order, every chunk record with the fields and values it had
C20_InputListsReadOnly ==
    [][(pc = "retrieved" /\ pc' = "fused") =>
          /\ vector_results' = vector_results
          /\ bm25_results' = bm25_results
          /\ keyword_chunks' = keyword_chunks]_vars

\* what does hold: length, order and every field the records had before
InputListsKeepOldFields ==
    [][(pc = "retrieved" /\ pc' = "fused") =>
          \A li \in 1..Len(ResultsLists) :
             /\ Len(ResultsLists'[li]) = Len(ResultsLists[li])
             /\ \A p \in 1..Len(ResultsLists[li]) :
                   \A k \in DOMAIN ResultsLists[li][p] :
                      /\ k \in DOMAIN ResultsLists'[li][p]
                      /\ ResultsLists'[li][p][k] = ResultsLists[li][p][k]]_vars

\* the places <<list, zero-based rank>> where a triple occurs in the input
Occurrences(key) ==
    {o \in (1..Len(ResultsLists)) \X (0..(MaxLen - 1)) :
        /\ o[2] < Len(ResultsLists[o[1]])
        /\ Key(ResultsLists[o[1]][o[2] + 1]) = key}

OccurrenceWeight(o) == Denom \div (K + o[2] + 1)

RECURSIVE SumWeights(_)
SumWeights(S) ==
    IF S = {} THEN 0
    ELSE LET o == CHOOSE y \in S : TRUE IN OccurrenceWeight(o) + SumWeights(S \ {o})

InputKeys == UNION {{Key(ResultsLists[li][p]) : p \in 1..Len(ResultsLists[li])} :
                       li \in 1..Len(ResultsLists)}

\* position of a triple in the fused output (0 when it is absent)
FusedPos(key) ==
    IF \E i \in 1..Len(search_candidates) : Key(search_candidates[i]) = key
    THEN CHOOSE i \in 1..Len(search_candidates) : Key(search_candidates[i]) = key
    ELSE 0

InList(key, L) == \E p \in 1..Len(L) : Key(L[p]) = key

\* C2: the fused output has exactly one entry per distinct triple of the input
\* lists, and its rrf_score is the sum of 1/(k + r + 1) over every occurrence
\* of the triple at zero-based rank r; three one-item lists holding the same
\* chunk give one entry with score 3/61.
C2_FusionDedupSum ==
    pc = "fused" =>
        /\ {Key(search_candidates[i]) : i \in 1..Len(search_candidates)} = InputKeys
        /\ Len(search_candidates) = Cardinality(InputKeys)
        /\ \A i \in 1..Len(search_candidates) :
              search_candidates[i].rrf_score
                  = SumWeights(Occurrences(Key(search_candidates[i])))
        /\ (/\ \A li \in 1..Len(ResultsLists) : Len(ResultsLists[li]) = 1
            /\ Cardinality(InputKeys) = 1)
              => /\ Len(search_candidates) = 1
                 /\ search_candidates[1].rrf_score = Len(ResultsLists) * (Denom \div (K + 1))

C2_Witness ==
    /\ pc = "fused"
    /\ \A li \in 1..Len(ResultsLists) : Len(ResultsLists[li]) = 1
    /\ Cardinality(InputKeys) = 1
    /\ Len(search_candidates) = 1

\* C3: the fused output is ordered by non-increasing score, and a chunk X that
\* is in every list is placed no lower than a chunk Y that is in only some of
\* the lists whenever X is ranked at least as well as Y in every list that
\* holds Y.
C3_FusionMonotonic ==
    pc = "fused" =>
        /\ \A i, j \in 1..Len(search_candidates) :
              i < j => search_candidates[i].rrf_score >= search_candidates[j].rrf_score
        /\ \A x, y \in InputKeys :
              (/\ x # y
               /\ \A li \in 1..Len(ResultsLists) : InList(x, ResultsLists[li])
               /\ \E li \in 1..Len(ResultsLists) : ~InList(y, ResultsLists[li])
               /\ \A li \in 1..Len(ResultsLists) :
                     \A p, q \in 1..Len(ResultsLists[li]) :
                        (Key(ResultsLists[li][p]) = x /\ Key(ResultsLists[li][q]) = y)
                            => p <= q)
                 => FusedPos(x) <= FusedPos(y)

====
